---- MODULE Spec2Model ----
(***************************************************************************)
(* Model of the GIU staff scheduler.                                       *)
(*                                                                         *)
(* Two programs are modelled, each with its own specification:             *)
(*                                                                         *)
(*  SpecBT  the backtracking driver nested in simple_fallback_schedule     *)
(*          (src/backend/simple_main.py): one recursive call of            *)
(*          intelligent_backtrack_assignment is one stack frame.           *)
(*  SpecGS  the facade GIUScheduler.create_schedule (src/scheduler.py)     *)
(*          over GlobalScheduler, CourseScheduler, PolicyValidator and     *)
(*          WorkloadBalancer.                                              *)
(*                                                                         *)
(* Day names are compared by the code after .lower(); the model keeps      *)
(* every day name in lower case.                                           *)
(***************************************************************************)
EXTENDS Integers, Sequences, FiniteSets, TLC

(***************************************************************************)
(* Bounds of the model and constants of the program.                       *)
(***************************************************************************)
\* most TAs of one request of the backtracking driver
MaxTAs == 2
\* most time slots of one request of the backtracking driver
MaxSlots == 3
\* most attributes of one TA that differ from the defaults
MaxAttrs == 1
\* max_depth of the call at simple_main.py:604
max_depth == 50
\* "duration": 2 of every assignment, and slot_duration of exceeds_hour_allocation
slot_duration == 2
\* request.course_ids[0], the course the driver schedules
this_course == 1
\* a course id other than request.course_ids[0]
other_course == this_course + 1
\* most courses of one call of create_schedule
MaxCourses == 2
\* most slots of a course when create_schedule gets several courses
MaxSharedSlots == 1

VARIABLES
    \* ---- backtracking driver ----
    ta_list,        \* the TA dictionaries loaded for the request
    time_slots,     \* request.time_slots
    policies,       \* request.policies
    stack,          \* the call stack of intelligent_backtrack_assignment
    ret,            \* the value the last finished call returned, or NoRet
    timed_out,      \* time.time() - start_time > 30 has been observed
    pc,             \* "run" while the search runs, "done" after the result is built
    result,         \* what simple_fallback_schedule returns
    deepest,        \* history: the most assignments any activation was called with
    \* ---- scheduling engine ----
    courses,             \* the courses handed to create_schedule
    tas,                 \* the TA objects the courses refer to, by TA id
    scheduling_policies, \* the SchedulingPolicies of the GIUScheduler, of the
                         \* PolicyValidator or of the WorkloadBalancer
    current_assignments, \* TA.current_assignments of every TA
    step,                \* where create_schedule stands; "validator",
                         \* "balancer", "resolver" and "optimizer" before,
                         \* "returned", "balanced", "resolved" and "optimized"
                         \* after a call of the validator, of the balancer, of
                         \* the conflict resolver or of
                         \* optimize_global_schedule alone
    locals,              \* the local variables of schedule_all_courses; for a
                         \* call of one of these alone, its arguments, the
                         \* working sets before it and what it returned
    scheduling_result,   \* the SchedulingResult create_schedule holds
                         \* (optimize: history of the argument of that name);
                         \* the list balance_workloads returned; the result
                         \* handed to and returned by resolve_conflicts or
                         \* optimize_global_schedule
    previous_result      \* history: what the previous call of create_schedule on
                         \* the same objects returned, <<>> during the first call

varsBT == <<ta_list, time_slots, policies, stack, ret, timed_out, pc, result, deepest>>

varsGS == <<courses, tas, scheduling_policies, current_assignments, step, locals,
            scheduling_result, previous_result>>

vars == <<varsBT, varsGS>>

(***************************************************************************)
(* Generic helpers.                                                        *)
(***************************************************************************)
Range(s) == {s[i] : i \in 1..Len(s)}

\* every arrangement of the elements of s: what random.shuffle can produce
Shuffles(s) ==
    {[i \in 1..Len(s) |-> s[p[i]]] :
        p \in {q \in [1..Len(s) -> 1..Len(s)] :
                  \A i, j \in 1..Len(s) : q[i] = q[j] => i = j}}

\* every sequence without repetition of at most n elements of S
RECURSIVE SeqsNoRep(_, _)
SeqsNoRep(S, n) ==
    IF n = 0 THEN {<<>>}
    ELSE {<<>>} \cup UNION {{<<x>> \o t : t \in SeqsNoRep(S \ {x}, n - 1)} : x \in S}

Max0(x) == IF x > 0 THEN x ELSE 0

NoRet == [none |-> TRUE]

(***************************************************************************)
(* Inputs of the backtracking driver.                                      *)
(***************************************************************************)
\* TimeSlotModel: tutorial_number / lab_number are 0 where the request has None
SlotReq(d, n, ty, tn, ln) ==
    [day |-> d, slot |-> n, type |-> ty, tutorial_number |-> tn, lab_number |-> ln]

SlotPool ==
    { SlotReq("saturday", 1, "tutorial", 1, 0),
      SlotReq("saturday", 1, "lab", 0, 1),
      SlotReq("saturday", 3, "tutorial", 2, 0),
      SlotReq("sunday", 1, "lab", 0, 2) }

\* the attributes of a TA dictionary as built at simple_main.py:188-199 (id
\* and name are set in TALists); at most MaxAttrs of them differ from the
\* defaults of TACreate
TAKinds ==
    LET all == [ premasters : BOOLEAN,
                 day_off : {"none", "sunday"},
                 blocked_slots : {{}, {<<"saturday", 1>>}},
                 course_allocations :
                     { <<>>,
                       <<[course_id |-> this_course, allocated_hours |-> 2]>>,
                       <<[course_id |-> other_course, allocated_hours |-> 2]>> } ]
        Attrs(k) == (IF k.premasters THEN 1 ELSE 0)
                    + (IF k.day_off # "none" THEN 1 ELSE 0)
                    + (IF k.blocked_slots # {} THEN 1 ELSE 0)
                    + (IF k.course_allocations # <<>> THEN 1 ELSE 0)
    IN {k \in all : Attrs(k) <= MaxAttrs}

RECURSIVE SumAlloc(_)
SumAlloc(allocs) ==
    IF allocs = <<>> THEN 0
    ELSE Head(allocs).allocated_hours + SumAlloc(Tail(allocs))

\* TAService.create_ta: total_allocated_hours is the sum of the allocations
total_allocated_hours(ta) == SumAlloc(ta.course_allocations)

\* PolicyModel without fairness_mode, which the driver only echoes; at most
\* one flag is set
PolicySets ==
    { pol \in [tutorial_lab_independence : BOOLEAN,
               tutorial_lab_equal_count : BOOLEAN,
               tutorial_lab_number_matching : BOOLEAN] :
        Cardinality({f \in DOMAIN pol : pol[f]}) <= 1 }

(***************************************************************************)
(* Constraint checking functions of simple_fallback_schedule.              *)
(* An assignment is the dictionary built at simple_main.py:501-510; the    *)
(* fields ta_id (the id of the candidate the loop placed) and relaxed      *)
(* (the candidate came from the relax_constraints=True list) are history   *)
(* fields the code does not have.                                          *)
(***************************************************************************)
\* next((t for t in ta_list if t["id"] == ta_id), None); 0 stands for None
FirstIndex(P(_)) ==
    IF \E i \in 1..Len(ta_list) : P(ta_list[i])
    THEN CHOOSE i \in 1..Len(ta_list) :
             P(ta_list[i]) /\ \A j \in 1..(i - 1) : ~P(ta_list[j])
    ELSE 0

ta_by_id(ta_id) ==
    LET HasId(t) == t.id = ta_id IN FirstIndex(HasId)

ta_by_name(ta_name) ==
    LET HasName(t) == t.name = ta_name IN FirstIndex(HasName)

is_premasters_violation(ta, day, slot) ==
    IF ~ta.premasters THEN FALSE
    ELSE IF day = "saturday" THEN slot \notin {1, 2}
    ELSE FALSE

CountWhere(cur, P(_)) == Cardinality({i \in 1..Len(cur) : P(cur[i])})

get_ta_workload(ta_id, cur) ==
    LET i == ta_by_id(ta_id)
        Mine(a) == a.ta_name = ta_list[i].name
    IN IF i # 0 THEN CountWhere(cur, Mine) ELSE 0

get_ta_tutorials(ta_id, cur) ==
    LET i == ta_by_id(ta_id)
        Mine(a) == a.ta_name = ta_list[i].name /\ a.slot_type = "tutorial"
    IN IF i # 0 THEN CountWhere(cur, Mine) ELSE 0

get_ta_labs(ta_id, cur) ==
    LET i == ta_by_id(ta_id)
        Mine(a) == a.ta_name = ta_list[i].name /\ a.slot_type = "lab"
    IN IF i # 0 THEN CountWhere(cur, Mine) ELSE 0

RECURSIVE FirstAllocation(_, _)
FirstAllocation(allocs, course_id) ==
    IF allocs = <<>> THEN 0
    ELSE IF Head(allocs).course_id = course_id THEN Head(allocs).allocated_hours
    ELSE FirstAllocation(Tail(allocs), course_id)

get_ta_hours_for_course(ta_id, course_id) ==
    LET i == ta_by_id(ta_id)
    IN IF i # 0 THEN FirstAllocation(ta_list[i].course_allocations, course_id) ELSE 0

RECURSIVE SumDuration(_, _)
SumDuration(cur, ta_name) ==
    IF cur = <<>> THEN 0
    ELSE (IF Head(cur).ta_name = ta_name THEN Head(cur).duration ELSE 0)
         + SumDuration(Tail(cur), ta_name)

\* the course_id parameter is not used by the code: every assignment of the
\* TA's name counts
get_ta_current_hours_for_course(ta_id, course_id, cur) ==
    LET i == ta_by_id(ta_id)
    IN IF i = 0 THEN 0 ELSE SumDuration(cur, ta_list[i].name)

exceeds_hour_allocation(ta, slot_req, cur) ==
    LET allocated_hours == get_ta_hours_for_course(ta.id, this_course)
        current_hours == get_ta_current_hours_for_course(ta.id, this_course, cur)
    IN IF allocated_hours = 0 THEN FALSE
       ELSE (current_hours + slot_duration) > allocated_hours

violates_tutorial_lab_independence(ta, slot_req, cur) ==
    IF ~policies.tutorial_lab_independence THEN FALSE
    ELSE \/ slot_req.type = "tutorial" /\ get_ta_labs(ta.id, cur) > 0
         \/ slot_req.type = "lab" /\ get_ta_tutorials(ta.id, cur) > 0

is_ta_already_assigned_to_slot(ta, slot_req, cur) ==
    \E i \in 1..Len(cur) :
        /\ cur[i].ta_name = ta.name
        /\ cur[i].day = slot_req.day
        /\ cur[i].slot_number = slot_req.slot

\* the index in ta_list of the TA the policy requires, 0 for None
check_tutorial_lab_number_matching(slot_req, cur) ==
    LET LabMatch(a) == a.slot_type = "lab" /\ a.lab_number = slot_req.tutorial_number
        TutMatch(a) == a.slot_type = "tutorial" /\ a.tutorial_number = slot_req.lab_number
        FirstOf(P(_)) ==
            IF \E i \in 1..Len(cur) : P(cur[i])
            THEN ta_by_name(cur[CHOOSE i \in 1..Len(cur) :
                                   P(cur[i]) /\ \A j \in 1..(i - 1) : ~P(cur[j])].ta_name)
            ELSE 0
    IN IF ~policies.tutorial_lab_number_matching THEN 0
       ELSE IF slot_req.type = "tutorial" /\ slot_req.tutorial_number # 0
            THEN FirstOf(LabMatch)
       ELSE IF slot_req.type = "lab" /\ slot_req.lab_number # 0
            THEN FirstOf(TutMatch)
       ELSE 0

violates_tutorial_lab_number_matching(ta, slot_req, cur) ==
    IF ~policies.tutorial_lab_number_matching THEN FALSE
    ELSE LET required_ta == check_tutorial_lab_number_matching(slot_req, cur)
         IN required_ta # 0 /\ ta_list[required_ta].id # ta.id

is_blocked(ta, slot_req) ==
    \E b \in ta.blocked_slots : b[1] = slot_req.day /\ b[2] = slot_req.slot

is_day_off(ta, slot_req) ==
    ta.day_off # "none" /\ ta.day_off = slot_req.day

\* the filter of get_all_candidate_tas_for_slot, lines 539-571
passes_candidate_filter(ta, slot_req, cur, relax_constraints) ==
    /\ ~is_premasters_violation(ta, slot_req.day, slot_req.slot)
    /\ ~(~relax_constraints /\ is_blocked(ta, slot_req))
    /\ ~(~relax_constraints /\ is_day_off(ta, slot_req))
    /\ ~is_ta_already_assigned_to_slot(ta, slot_req, cur)
    /\ ~exceeds_hour_allocation(ta, slot_req, cur)
    /\ ~violates_tutorial_lab_independence(ta, slot_req, cur)
    /\ ~violates_tutorial_lab_number_matching(ta, slot_req, cur)

\* lines 573-587; the scores are doubled nowhere: * 2.0 keeps them integral
priority_score(ta, slot_req, cur) ==
    LET workload == get_ta_workload(ta.id, cur)
        tutorial_count == get_ta_tutorials(ta.id, cur)
        lab_count == get_ta_labs(ta.id, cur)
    IN workload +
       (IF policies.tutorial_lab_equal_count
        THEN IF slot_req.type = "tutorial"
             THEN Max0(tutorial_count - lab_count) * 2
             ELSE Max0(lab_count - tutorial_count) * 2
        ELSE 0)

\* candidates.sort(key=score): a stable sort of indices of ta_list
RECURSIVE StableSort(_, _, _)
StableSort(idxs, slot_req, cur) ==
    IF idxs = <<>> THEN <<>>
    ELSE LET Score(k) == priority_score(ta_list[idxs[k]], slot_req, cur)
             b == CHOOSE k \in 1..Len(idxs) :
                     /\ \A j \in 1..Len(idxs) : Score(k) <= Score(j)
                     /\ \A j \in 1..(k - 1) : Score(j) > Score(k)
             rest == [j \in 1..(Len(idxs) - 1) |-> IF j < b THEN idxs[j] ELSE idxs[j + 1]]
         IN <<idxs[b]>> \o StableSort(rest, slot_req, cur)

\* the indices in ta_list of the candidates, in the order the code returns them
get_all_candidate_tas_for_slot(slot_req, cur, relax_constraints) ==
    LET Pass(i) == passes_candidate_filter(ta_list[i], slot_req, cur, relax_constraints)
        passing == SelectSeq([i \in 1..Len(ta_list) |-> i], Pass)
    IN StableSort(passing, slot_req, cur)

(***************************************************************************)
(* The backtracking driver as a state machine.  A frame of the stack is    *)
(* one activation of intelligent_backtrack_assignment:                     *)
(*   idx    slots_to_assign is time_slots[idx..]                           *)
(*   cur    current_assignments                                            *)
(*   depth  the depth argument                                             *)
(*   phase  "enter" before line 454, "loop" inside the for loop of 497     *)
(*   cands  the candidates the for loop has not tried yet                  *)
(*   relaxed  the candidates came from the relaxed call of line 480        *)
(***************************************************************************)
Frame(idx, cur, depth) ==
    [idx |-> idx, cur |-> cur, depth |-> depth, phase |-> "enter",
     cands |-> <<>>, relaxed |-> FALSE]

slots_to_assign(f) == SubSeq(time_slots, f.idx, Len(time_slots))

Returned(success, assignments, failed) ==
    [success |-> success, assignments |-> assignments, failed |-> failed]

\* test_assignment of lines 501-510
test_assignment(candidate_ta, slot_req, relaxed) ==
    [ta_name |-> candidate_ta.name,
     day |-> slot_req.day,
     slot_number |-> slot_req.slot,
     slot_type |-> slot_req.type,
     tutorial_number |-> slot_req.tutorial_number,
     lab_number |-> slot_req.lab_number,
     duration |-> slot_duration,
     ta_id |-> candidate_ta.id,
     relaxed |-> relaxed]

Top == stack[Len(stack)]
Pop == SubSeq(stack, 1, Len(stack) - 1)
SetTop(f) == [stack EXCEPT ![Len(stack)] = f]

\* restricted-growth name patterns: TA i is named as an earlier TA or gets
\* the next fresh name (TA names are not unique in the database)
NamePatterns(n) ==
    {nm \in [1..n -> 1..n] :
        \A i \in 1..n : \A v \in 1..(nm[i] - 1) : \E j \in 1..(i - 1) : nm[j] = v}

TALists ==
    UNION {
        {[i \in 1..n |-> [id |-> i,
                          name |-> nm[i],
                          premasters |-> ks[i].premasters,
                          day_off |-> ks[i].day_off,
                          blocked_slots |-> ks[i].blocked_slots,
                          course_allocations |-> ks[i].course_allocations]] :
            ks \in [1..n -> TAKinds], nm \in NamePatterns(n)} : n \in 1..MaxTAs}

\* the scheduling engine is not running
IdleGS ==
    /\ courses = <<>>
    /\ tas = <<>>
    /\ scheduling_policies = <<>>
    /\ current_assignments = <<>>
    /\ step = "idle"
    /\ locals = <<>>
    /\ scheduling_result = <<>>
    /\ previous_result = <<>>

InitBT ==
    /\ ta_list \in TALists
    /\ time_slots \in SeqsNoRep(SlotPool, MaxSlots)
    /\ policies \in PolicySets
    /\ stack = <<Frame(1, <<>>, 0)>>
    /\ ret = NoRet
    /\ timed_out = FALSE
    /\ pc = "run"
    /\ result = [status |-> "none"]
    /\ deepest = 0
    /\ IdleGS

\* lines 454-494: the guards, the base case and the candidate lists
BT_Enter ==
    /\ pc = "run" /\ stack # <<>> /\ Top.phase = "enter"
    /\ \E t \in (IF timed_out THEN {TRUE} ELSE BOOLEAN) :
        /\ timed_out' = (timed_out \/ (Top.depth <= max_depth /\ t))
        /\ IF Top.depth > max_depth \/ t
           THEN /\ ret' = Returned(FALSE, Top.cur, slots_to_assign(Top))
                /\ stack' = Pop
           ELSE IF slots_to_assign(Top) = <<>>
           THEN /\ ret' = Returned(TRUE, Top.cur, <<>>)
                /\ stack' = Pop
           ELSE LET slot_req == time_slots[Top.idx]
                    strict == get_all_candidate_tas_for_slot(slot_req, Top.cur, FALSE)
                    candidates ==
                        IF strict # <<>> THEN strict
                        ELSE get_all_candidate_tas_for_slot(slot_req, Top.cur, TRUE)
                IN IF candidates = <<>>
                   THEN /\ ret' = Returned(FALSE, Top.cur, <<slot_req>>)
                        /\ stack' = Pop
                   ELSE /\ \E sh \in Shuffles(candidates) :
                              stack' = SetTop([Top EXCEPT !.phase = "loop",
                                                          !.cands = sh,
                                                          !.relaxed = (strict = <<>>)])
                        /\ ret' = ret
    /\ UNCHANGED <<ta_list, time_slots, policies, pc, result, deepest, varsGS>>

\* lines 497-528: one turn of the for loop.  A successful child is returned
\* as it is; after a failed child (or at the start) the next candidate is
\* tried, and when none is left the call fails with its own assignments.
BT_Loop ==
    /\ pc = "run" /\ stack # <<>> /\ Top.phase = "loop"
    /\ IF ret # NoRet /\ ret.success
       THEN /\ stack' = Pop
            /\ ret' = ret
            /\ deepest' = deepest
       ELSE IF Top.cands = <<>>
       THEN /\ ret' = Returned(FALSE, Top.cur, <<time_slots[Top.idx]>>)
            /\ stack' = Pop
            /\ deepest' = deepest
       ELSE LET candidate_ta == ta_list[Head(Top.cands)]
                new_assignments ==
                    Append(Top.cur,
                           test_assignment(candidate_ta, time_slots[Top.idx], Top.relaxed))
            IN /\ stack' = Append(SetTop([Top EXCEPT !.cands = Tail(Top.cands)]),
                                  Frame(Top.idx + 1, new_assignments, Top.depth + 1))
               /\ ret' = NoRet
               /\ deepest' = IF Len(new_assignments) > deepest
                              THEN Len(new_assignments) ELSE deepest
    /\ UNCHANGED <<ta_list, time_slots, policies, timed_out, pc, result, varsGS>>

\* lines 633-657: (day, slot) cells in which one TA name occurs twice
parallel_conflicts(assignments) ==
    {<<assignments[i].ta_name, assignments[i].day, assignments[i].slot_number>> :
        i \in {k \in 1..Len(assignments) :
                 \E j \in 1..Len(assignments) :
                    /\ j # k
                    /\ assignments[j].ta_name = assignments[k].ta_name
                    /\ assignments[j].day = assignments[k].day
                    /\ assignments[j].slot_number = assignments[k].slot_number}}

\* lines 667-671
policy_violations(assignments) ==
    LET Violates(a) ==
            is_premasters_violation(ta_list[ta_by_name(a.ta_name)], a.day, a.slot_number)
    IN CountWhere(assignments, Violates)

\* lines 603-740 of simple_fallback_schedule: the result built from what the
\* outermost call returned.  Line 664 reads statistics before it is bound, so
\* a parallel conflict ends in the HTTP 500 of line 746.
BT_Post ==
    /\ pc = "run" /\ stack = <<>> /\ ret # NoRet
    /\ LET assignments == ret.assignments
           failed_assignments ==
               [i \in 1..Len(ret.failed) |->
                   [day |-> ret.failed[i].day, slot |-> ret.failed[i].slot,
                    type |-> ret.failed[i].type]]
           all_assigned ==
               IF time_slots # <<>> THEN Len(assignments) = Len(time_slots) ELSE TRUE
       IN result' =
            IF parallel_conflicts(assignments) # {}
            THEN [status |-> "error"]
            ELSE [status |-> "ok",
                  success |-> all_assigned /\ policy_violations(assignments) = 0,
                  assignments |-> assignments,
                  failed_assignments |-> failed_assignments,
                  policy_violations |-> policy_violations(assignments)]
    /\ pc' = "done"
    /\ UNCHANGED <<ta_list, time_slots, policies, stack, ret, timed_out, deepest, varsGS>>

NextBT == BT_Enter \/ BT_Loop \/ BT_Post

SpecBT == InitBT /\ [][NextBT]_vars

(***************************************************************************)
(* The scheduling engine behind GIUScheduler.create_schedule.              *)
(*                                                                         *)
(* A TimeSlot is [day, slot_number, slot_type]; its duration is the fixed  *)
(* 2 hours of models.py.  A TA of g_tas is [max_weekly_hours,              *)
(* available_slots, preferred_slots] under its id; a course of g_courses   *)
(* is [id, required_slots, assigned_tas], assigned_tas holding TA ids.     *)
(* The working set TA.current_assignments is passed to the operators as    *)
(* ca, a function TA id -> course id -> list of slots (a course id the     *)
(* dictionary does not hold maps to the empty list).                       *)
(***************************************************************************)
TimeSlot(d, n, ty) == [day |-> d, slot_number |-> n, slot_type |-> ty]

SeqSum(s) ==
    LET RECURSIVE Go(_)
        Go(k) == IF k = 0 THEN 0 ELSE s[k] + Go(k - 1)
    IN Go(Len(s))

InSeq(x, s) == \E i \in 1..Len(s) : s[i] = x

\* list.remove(x): the first element equal to x goes
RemoveFirst(s, x) ==
    LET i == CHOOSE k \in 1..Len(s) : s[k] = x /\ \A j \in 1..(k - 1) : s[j] # x
    IN SubSeq(s, 1, i - 1) \o SubSeq(s, i + 1, Len(s))

\* max(seq, key): the index of the first element with the largest key
FirstMax(n, Key(_)) ==
    CHOOSE k \in 1..n :
        /\ \A j \in 1..n : Key(j) <= Key(k)
        /\ \A j \in 1..(k - 1) : Key(j) < Key(k)

\* min(seq, key): the index of the first element with the smallest key
FirstMin(n, Key(_)) ==
    CHOOSE k \in 1..n :
        /\ \A j \in 1..n : Key(k) <= Key(j)
        /\ \A j \in 1..(k - 1) : Key(j) > Key(k)

\* sorted(seq, key) for a key given by Less on elements: a stable insertion
LessSorted(s, Less(_, _)) ==
    LET RECURSIVE Go(_)
        Go(k) ==
            IF k = 0 THEN <<>>
            ELSE LET prev == Go(k - 1)
                     \* s[k] goes after every element that is not greater
                     pos == Cardinality({j \in 1..Len(prev) : ~Less(s[k], prev[j])})
                 IN SubSeq(prev, 1, pos) \o <<s[k]>> \o SubSeq(prev, pos + 1, Len(prev))
    IN Go(Len(s))

\* itertools.combinations(s, r), in the order itertools yields them
RECURSIVE combinations(_, _)
combinations(s, r) ==
    IF r = 0 THEN <<<<>>>>
    ELSE IF Len(s) < r THEN <<>>
    ELSE LET with == combinations(Tail(s), r - 1)
         IN [i \in 1..Len(with) |-> <<Head(s)>> \o with[i]] \o combinations(Tail(s), r)

\* the concatenation of the lists F(1), ..., F(n)
Flatten(n, F(_)) ==
    LET RECURSIVE Go(_)
        Go(k) == IF k = 0 THEN <<>> ELSE Go(k - 1) \o F(k)
    IN Go(n)

(***************************************************************************)
(* models.TA                                                               *)
(***************************************************************************)
get_total_assigned_hours(ca, ta) ==
    LET cs == DOMAIN ca[ta]
        RECURSIVE Go(_)
        Go(S) == IF S = {} THEN 0
                 ELSE LET c == CHOOSE c \in S : TRUE
                      IN Len(ca[ta][c]) * slot_duration + Go(S \ {c})
    IN Go(cs)

get_remaining_capacity(ca, ta) ==
    tas[ta].max_weekly_hours - get_total_assigned_hours(ca, ta)

has_conflict(ca, ta, slot) ==
    \E c \in DOMAIN ca[ta] : \E i \in 1..Len(ca[ta][c]) :
        /\ ca[ta][c][i].day = slot.day
        /\ ca[ta][c][i].slot_number = slot.slot_number

\* the slots the TA already holds are not looked at
is_available_ignoring_assignments(ca, ta, slot) == slot \in tas[ta].available_slots

is_available_for_slot(ca, ta, slot) ==
    slot \in tas[ta].available_slots /\ ~has_conflict(ca, ta, slot)

(***************************************************************************)
(* policy_validator.PolicyValidator                                        *)
(***************************************************************************)
_check_equal_count_policy(slots) ==
    LET tutorial_count == Cardinality({i \in 1..Len(slots) : slots[i].slot_type = "tutorial"})
        lab_count == Cardinality({i \in 1..Len(slots) : slots[i].slot_type = "lab"})
    IN IF tutorial_count # lab_count THEN <<"equal_count">> ELSE <<>>

_check_number_matching_policy(slots) ==
    LET tutorial_numbers == {slots[i].slot_number :
                                i \in {k \in 1..Len(slots) : slots[k].slot_type = "tutorial"}}
        lab_numbers == {slots[i].slot_number :
                            i \in {k \in 1..Len(slots) : slots[k].slot_type # "tutorial"}}
    IN (IF tutorial_numbers \ lab_numbers # {} THEN <<"unmatched_tutorials">> ELSE <<>>)
       \o (IF lab_numbers \ tutorial_numbers # {} THEN <<"unmatched_labs">> ELSE <<>>)

\* the checks of the two policies without the test of tutorial_lab_independence
validate_assignment_policies_only(proposed_slots) ==
    (IF scheduling_policies.tutorial_lab_equal_count
     THEN _check_equal_count_policy(proposed_slots) ELSE <<>>)
    \o (IF scheduling_policies.tutorial_lab_number_matching
        THEN _check_number_matching_policy(proposed_slots) ELSE <<>>)

\* the violations; the assignment is valid when there is none
validate_assignment(proposed_slots) ==
    IF ~scheduling_policies.tutorial_lab_independence
    THEN (IF scheduling_policies.tutorial_lab_equal_count
          THEN _check_equal_count_policy(proposed_slots) ELSE <<>>)
         \o (IF scheduling_policies.tutorial_lab_number_matching
             THEN _check_number_matching_policy(proposed_slots) ELSE <<>>)
    ELSE <<>>

_has_parallel_conflicts(slots) ==
    \E i, j \in 1..Len(slots) :
        /\ i < j
        /\ slots[i].day = slots[j].day
        /\ slots[i].slot_number = slots[j].slot_number

Min2(a, b) == IF a < b THEN a ELSE b

_generate_independent_combinations(available_slots, max_slots) ==
    LET top == Min2(max_slots + 1, Len(available_slots) + 1) - 1
        NoConflict(c) == ~_has_parallel_conflicts(c)
        OfSize(r) == SelectSeq(combinations(available_slots, r), NoConflict)
    IN Flatten(Max0(top), OfSize)

_generate_equal_count_combinations(available_slots, max_slots) ==
    LET IsTut(x) == x.slot_type = "tutorial"
        IsLab(x) == x.slot_type = "lab"
        tutorials == SelectSeq(available_slots, IsTut)
        labs == SelectSeq(available_slots, IsLab)
        max_pairs == Min2(Min2(Len(tutorials), Len(labs)), max_slots \div 2)
        Keep(c) == Len(c) <= max_slots /\ ~_has_parallel_conflicts(c)
        OfPairs(pair_count) ==
            LET tc == combinations(tutorials, pair_count)
                lc == combinations(labs, pair_count)
                ForTut(i) == [j \in 1..Len(lc) |-> tc[i] \o lc[j]]
            IN SelectSeq(Flatten(Len(tc), ForTut), Keep)
    IN Flatten(Max0(max_pairs), OfPairs)

\* {slot.slot_number: slot ...}: the last slot of a number wins
LastWithNumber(slots, n) ==
    slots[CHOOSE k \in 1..Len(slots) :
            slots[k].slot_number = n /\ \A j \in (k + 1)..Len(slots) : slots[j].slot_number # n]

\* a set of small integers is iterated in ascending order
AscendingSeq(S) ==
    LET RECURSIVE Go(_)
        Go(T) == IF T = {} THEN <<>>
                 ELSE LET m == CHOOSE x \in T : \A y \in T : x <= y
                      IN <<m>> \o Go(T \ {m})
    IN Go(S)

_generate_number_matching_combinations(available_slots, max_slots) ==
    LET IsTut(x) == x.slot_type = "tutorial"
        IsLab(x) == x.slot_type = "lab"
        tut_slots == SelectSeq(available_slots, IsTut)
        lab_slots == SelectSeq(available_slots, IsLab)
        matching_numbers ==
            {tut_slots[i].slot_number : i \in 1..Len(tut_slots)}
              \cap {lab_slots[i].slot_number : i \in 1..Len(lab_slots)}
        max_pairs == Min2(Cardinality(matching_numbers), max_slots \div 2)
        Pairs(number_combo) ==
            LET One(k) == <<LastWithNumber(tut_slots, number_combo[k]),
                            LastWithNumber(lab_slots, number_combo[k])>>
            IN Flatten(Len(number_combo), One)
        Keep(c) == Len(c) <= max_slots /\ ~_has_parallel_conflicts(c)
        OfPairs(pair_count) ==
            LET nc == combinations(AscendingSeq(matching_numbers), pair_count)
            IN SelectSeq([i \in 1..Len(nc) |-> Pairs(nc[i])], Keep)
    IN IF matching_numbers = {} THEN <<>> ELSE Flatten(Max0(max_pairs), OfPairs)

\* lines 57-89: the combinations the policies allow over available_slots
PolicyCombinations(available_slots, max_slots) ==
    IF available_slots = <<>> THEN <<>>
    ELSE IF scheduling_policies.tutorial_lab_independence
         THEN _generate_independent_combinations(available_slots, max_slots)
    ELSE IF /\ scheduling_policies.tutorial_lab_equal_count
            /\ scheduling_policies.tutorial_lab_number_matching
         THEN LET NoViolation(c) == _check_number_matching_policy(c) = <<>>
              IN SelectSeq(_generate_equal_count_combinations(available_slots, max_slots),
                           NoViolation)
    ELSE IF scheduling_policies.tutorial_lab_equal_count
         THEN _generate_equal_count_combinations(available_slots, max_slots)
    ELSE IF scheduling_policies.tutorial_lab_number_matching
         THEN _generate_number_matching_combinations(available_slots, max_slots)
    ELSE _generate_independent_combinations(available_slots, max_slots)

get_valid_slot_combinations(ca, ta, course, max_slots) ==
    LET Avail(x) == is_available_for_slot(ca, ta, x)
    IN PolicyCombinations(SelectSeq(course.required_slots, Avail), max_slots)

(***************************************************************************)
(* course_scheduler.CourseScheduler                                        *)
(* An assignment is [ta, slot, course] with the TA id and the course id.   *)
(***************************************************************************)
ScheduleAssignment(ta, slot, course) == [ta |-> ta, slot |-> slot, course |-> course]

\* ta.current_assignments[course_id] = slots
SetAssignments(ca, ta, course_id, slots) ==
    [ca EXCEPT ![ta] = [@ EXCEPT ![course_id] = slots]]

\* the first combination of the list, whatever its score
_select_first_combination(ta, combos) == combos[1]

\* twice the score of the code, which adds 0.5 for every slot
_select_best_combination(ta, combos) ==
    LET slot_score(x) ==
            IF x \in DOMAIN tas[ta].preferred_slots
            THEN Max0(10 - tas[ta].preferred_slots[x])
            ELSE 5
        score_combination(k) ==
            2 * SeqSum([i \in 1..Len(combos[k]) |-> slot_score(combos[k][i])])
              + Len(combos[k])
    IN combos[FirstMax(Len(combos), score_combination)]

\* lines 48-53: the slots of best_combination that are still unassigned
TakeUnassigned(best_combination, unassigned_slots) ==
    LET RECURSIVE Go(_)
        Go(k) ==
            IF k = 0 THEN [assigned_slots |-> <<>>, unassigned_slots |-> unassigned_slots]
            ELSE LET p == Go(k - 1)
                 IN IF InSeq(best_combination[k], p.unassigned_slots)
                    THEN [assigned_slots |-> Append(p.assigned_slots, best_combination[k]),
                          unassigned_slots |->
                              RemoveFirst(p.unassigned_slots, best_combination[k])]
                    ELSE p
    IN Go(Len(best_combination))

\* lines 48-60: the TA gets the slots TakeUnassigned took.  st holds the
\* assignments, the violations, the slots left unassigned and the working sets.
GreedyAssign(st, course, ta, taken) ==
    [assignments |->
         st.assignments \o
         [i \in 1..Len(taken.assigned_slots) |->
             ScheduleAssignment(ta, taken.assigned_slots[i], course.id)],
     violations |->
         st.violations \o
         (IF taken.assigned_slots # <<>>
          THEN validate_assignment(taken.assigned_slots) ELSE <<>>),
     unassigned_slots |-> taken.unassigned_slots,
     ca |-> SetAssignments(st.ca, ta, course.id, taken.assigned_slots)]

\* lines 43-46
GreedyChoose(st, course, ta, valid_combinations) ==
    IF valid_combinations = <<>> THEN st
    ELSE GreedyAssign(st, course, ta,
                      TakeUnassigned(_select_best_combination(ta, valid_combinations),
                                     st.unassigned_slots))

\* lines 35-41: one turn of the loop over course.assigned_tas
GreedyTurn(st, course, ta) ==
    IF get_remaining_capacity(st.ca, ta) < 2 THEN st
    ELSE GreedyChoose(st, course, ta,
                      get_valid_slot_combinations(st.ca, ta, course,
                                                  get_remaining_capacity(st.ca, ta) \div 2))

RECURSIVE GreedyLoop(_, _, _)
GreedyLoop(course, ca0, k) ==
    IF k = 0
    THEN [assignments |-> <<>>, violations |-> <<>>,
          unassigned_slots |-> course.required_slots, ca |-> ca0]
    ELSE GreedyTurn(GreedyLoop(course, ca0, k - 1), course, course.assigned_tas[k])

_schedule_greedy(course, ca0) == GreedyLoop(course, ca0, Len(course.assigned_tas))

\* sorted(slots, key = -available_count): the slot most TAs can take is first
_sort_slots_by_difficulty(slots, available_tas, ca) ==
    LET available_count(x) ==
            Cardinality({i \in 1..Len(available_tas) :
                            is_available_for_slot(ca, available_tas[i], x)})
        Less(x, y) == available_count(x) > available_count(y)
    IN LessSorted(slots, Less)

\* line 68
AvailableTAs(course, ca0) ==
    LET HasCapacity(ta) == get_remaining_capacity(ca0, ta) >= 2
    IN SelectSeq(course.assigned_tas, HasCapacity)

\* lines 83-88
EligibleTAs(st, slot, available_tas, target_hours_per_ta, ca0) ==
    LET Free(ta) == is_available_for_slot(ca0, ta, slot)
        BelowTarget(ta) ==
            /\ Free(ta)
            /\ Len(st.assignments_per_ta[ta]) * 2 < target_hours_per_ta + 2
    IN IF \E i \in 1..Len(available_tas) : BelowTarget(available_tas[i])
       THEN SelectSeq(available_tas, BelowTarget)
       ELSE SelectSeq(available_tas, Free)

\* lines 93-98
FairAssign(st, course, slot, eligible_tas) ==
    LET Load(i) == Len(st.assignments_per_ta[eligible_tas[i]])
    IN IF eligible_tas = <<>> THEN st
       ELSE [assignments |->
                 Append(st.assignments,
                        ScheduleAssignment(eligible_tas[FirstMin(Len(eligible_tas), Load)],
                                           slot, course.id)),
             unassigned_slots |-> RemoveFirst(st.unassigned_slots, slot),
             assignments_per_ta |->
                 [st.assignments_per_ta EXCEPT
                     ![eligible_tas[FirstMin(Len(eligible_tas), Load)]] = Append(@, slot)]]

\* lines 79-98: one turn of the loop over sorted_slots
FairTurn(st, course, slot, available_tas, ca0) ==
    IF ~InSeq(slot, st.unassigned_slots) THEN st
    ELSE FairAssign(st, course, slot,
                    EligibleTAs(st, slot, available_tas,
                                (Len(course.required_slots) * slot_duration)
                                    \div Len(available_tas),
                                ca0))

RECURSIVE FairLoop(_, _, _, _, _)
FairLoop(course, sorted_slots, available_tas, ca0, k) ==
    IF k = 0
    THEN [assignments |-> <<>>,
          unassigned_slots |-> course.required_slots,
          assignments_per_ta |-> [ta \in Range(available_tas) |-> <<>>]]
    ELSE FairTurn(FairLoop(course, sorted_slots, available_tas, ca0, k - 1),
                  course, sorted_slots[k], available_tas, ca0)

\* lines 100-106: one turn of the loop that records the working sets
FairRecordTurn(st, course, ta, assigned_slots) ==
    IF assigned_slots = <<>> THEN st
    ELSE [violations |-> st.violations \o validate_assignment(assigned_slots),
          ca |-> SetAssignments(st.ca, ta, course.id, assigned_slots)]

RECURSIVE FairRecord(_, _, _, _, _)
FairRecord(course, available_tas, assignments_per_ta, ca0, k) ==
    IF k = 0 THEN [violations |-> <<>>, ca |-> ca0]
    ELSE FairRecordTurn(FairRecord(course, available_tas, assignments_per_ta, ca0, k - 1),
                        course, available_tas[k], assignments_per_ta[available_tas[k]])

\* lines 100-108
FairResult(course, available_tas, placed, ca0) ==
    [assignments |-> placed.assignments,
     violations |->
         FairRecord(course, available_tas, placed.assignments_per_ta, ca0,
                    Len(available_tas)).violations,
     unassigned_slots |-> placed.unassigned_slots,
     ca |-> FairRecord(course, available_tas, placed.assignments_per_ta, ca0,
                       Len(available_tas)).ca]

\* lines 70-98
FairSchedule(course, available_tas, ca0) ==
    IF available_tas = <<>>
    THEN [assignments |-> <<>>, violations |-> <<"no_capacity">>,
          unassigned_slots |-> course.required_slots, ca |-> ca0]
    ELSE FairResult(course, available_tas,
                    FairLoop(course,
                             _sort_slots_by_difficulty(course.required_slots,
                                                       available_tas, ca0),
                             available_tas, ca0, Len(course.required_slots)),
                    ca0)

_schedule_with_fairness(course, ca0) ==
    FairSchedule(course, AvailableTAs(course, ca0), ca0)

\* lines 25-28
WithUnassigned(r) ==
    [assignments |-> r.assignments,
     violations |-> r.violations \o
         (IF r.unassigned_slots # <<>> THEN <<"could_not_assign">> ELSE <<>>),
     ca |-> r.ca]

\* the assignments and the violations it returns, and the working sets
schedule_course(course, ca0) ==
    IF course.assigned_tas = <<>> \/ course.required_slots = <<>>
    THEN [assignments |-> <<>>, violations |-> <<"no_tas_or_slots">>, ca |-> ca0]
    ELSE IF scheduling_policies.fairness_mode
         THEN WithUnassigned(_schedule_with_fairness(course, ca0))
         ELSE WithUnassigned(_schedule_greedy(course, ca0))

(***************************************************************************)
(* models.GlobalSchedule and global_scheduler.GlobalScheduler              *)
(***************************************************************************)
\* one entry for every assignment whose TA already stands in the same cell
\* of the grid
detect_conflicts(assignments) ==
    LET n == Len(assignments)
        Cell(i) == <<assignments[i].slot.day, assignments[i].slot.slot_number>>
        IsFirstOfCell(i) == \A j \in 1..(i - 1) : Cell(j) # Cell(i)
        \* the cells in the order the grid dictionary got them
        firsts == AscendingSeq({i \in 1..n : IsFirstOfCell(i)})
        InCell(c) ==
            LET Again(i) ==
                    /\ Cell(i) = Cell(firsts[c])
                    /\ \E j \in 1..(i - 1) :
                          Cell(j) = Cell(i) /\ assignments[j].ta = assignments[i].ta
                again == AscendingSeq({i \in 1..n : Again(i)})
            IN [k \in 1..Len(again) |->
                   <<assignments[again[k]].ta, Cell(again[k])[1], Cell(again[k])[2]>>]
    IN Flatten(Len(firsts), InCell)

\* the course indices in the order sorted() leaves them
_sort_courses_by_priority(ca) ==
    LET total_slots(c) == Len(courses[c].required_slots)
        HasCapacity(ta) == get_remaining_capacity(ca, ta) >= 2
        available_tas(c) == Len(SelectSeq(courses[c].assigned_tas, HasCapacity))
        Denominator(c) == IF available_tas(c) > 1 THEN available_tas(c) ELSE 1
        \* priority_score(c) < priority_score(d), the ratios compared crosswise
        Less(c, d) ==
            LET rc == total_slots(c) * Denominator(d)
                rd == total_slots(d) * Denominator(c)
            IN \/ rc > rd
               \/ rc = rd /\ total_slots(c) > total_slots(d)
               \/ /\ rc = rd /\ total_slots(c) = total_slots(d)
                  /\ Len(courses[c].assigned_tas) > Len(courses[d].assigned_tas)
    IN LessSorted([c \in 1..Len(courses) |-> c], Less)

\* a variant that compares the whole slot, its type included
_assignments_conflict_by_slot(a1, a2) ==
    /\ a1.ta = a2.ta
    /\ a1.slot = a2.slot

_assignments_conflict(a1, a2) ==
    /\ a1.ta = a2.ta
    /\ a1.slot.day = a2.slot.day
    /\ a1.slot.slot_number = a2.slot.slot_number

_group_conflicting_assignments(assignments) ==
    LET n == Len(assignments)
        RECURSIVE Go(_)
        Go(i) ==
            IF i = 0 THEN [conflict_groups |-> <<>>, processed |-> {}]
            ELSE LET st == Go(i - 1)
                     members == {j \in (i + 1)..n :
                                    /\ j \notin st.processed
                                    /\ _assignments_conflict(assignments[i], assignments[j])}
                     later == AscendingSeq(members)
                     group == <<assignments[i]>> \o
                              [k \in 1..Len(later) |-> assignments[later[k]]]
                 IN IF i \in st.processed THEN st
                    ELSE [conflict_groups |->
                              IF Len(group) > 1 THEN Append(st.conflict_groups, group)
                              ELSE st.conflict_groups,
                          processed |-> st.processed \cup {i} \cup members]
    IN Go(n).conflict_groups

\* 60 times the score of the code, so that 1 / len(assigned_tas) is whole
\* for every course of up to 6 TAs
_select_best_assignment_from_conflict(conflicting_assignments, ca) ==
    LET assignment_score(k) ==
            LET a == conflicting_assignments[k]
                n == Len(courses[a.course].assigned_tas)
            IN (IF a.slot \in DOMAIN tas[a.ta].preferred_slots
                THEN 60 * Max0(10 - tas[a.ta].preferred_slots[a.slot]) ELSE 0)
               + 60 \div (IF n > 1 THEN n ELSE 1)
               + (IF get_total_assigned_hours(ca, a.ta) * 10 < 8 * tas[a.ta].max_weekly_hours
                  THEN 120 ELSE 0)
    IN conflicting_assignments[FirstMax(Len(conflicting_assignments), assignment_score)]

_resolve_conflicts(assignments, ca) ==
    LET conflict_groups == _group_conflicting_assignments(assignments)
        Best(g) == _select_best_assignment_from_conflict(conflict_groups[g], ca)
        InNoGroup(a) == \A g \in 1..Len(conflict_groups) : ~InSeq(a, conflict_groups[g])
    IN [g \in 1..Len(conflict_groups) |-> Best(g)] \o SelectSeq(assignments, InNoGroup)

(***************************************************************************)
(* workload_balancer.WorkloadBalancer                                      *)
(* The statistics are [order, stat]: the TA ids in the order the           *)
(* dictionary got them, and the WorkloadStats of each.  utilization_rate   *)
(* is current_hours / max_hours throughout, so the model compares the      *)
(* fractions exactly instead of storing a float.                           *)
(***************************************************************************)
_calculate_workload_stats(assignments) ==
    LET n == Len(assignments)
        IsFirstOfTA(i) == \A j \in 1..(i - 1) : assignments[j].ta # assignments[i].ta
        firsts == AscendingSeq({i \in 1..n : IsFirstOfTA(i)})
        order == [k \in 1..Len(firsts) |-> assignments[firsts[k]].ta]
        Of(ta) == LET Mine(a) == a.ta = ta IN SelectSeq(assignments, Mine)
    IN [order |-> order,
        stat |-> [ta \in Range(order) |->
                    [current_hours |-> Len(Of(ta)) * slot_duration,
                     max_hours |-> tas[ta].max_weekly_hours,
                     assignments |-> Of(ta)]]]

\* utilization_rate > 0.85
Overloaded(st) == st.max_hours > 0 /\ st.current_hours * 100 > 85 * st.max_hours

\* utilization_rate < 0.65
Underloaded(st) == st.max_hours > 0 => st.current_hours * 100 < 65 * st.max_hours

RECURSIVE GCD(_, _)
GCD(a, b) == IF b = 0 THEN a ELSE GCD(b, a % b)

\* the least common multiple of the positive numbers of s
SeqLCM(s) ==
    LET RECURSIVE Go(_)
        Go(k) == IF k = 0 THEN 1
                 ELSE (Go(k - 1) * s[k]) \div GCD(Go(k - 1), s[k])
    IN Go(Len(s))

\* imbalance_score < 2.0.  With every rate u[i] = U[i] / D and S their sum,
\* 10 * stdev(u) / mean(u) < 2 is 25 * sum((n * U[i] - S)^2) < (n - 1) * S^2.
ImbalanceBelowThreshold(stats) ==
    LET n == Len(stats.order)
        st(i) == stats.stat[stats.order[i]]
        Den(i) == IF st(i).max_hours > 0 THEN st(i).max_hours ELSE 1
        D == SeqLCM([i \in 1..n |-> Den(i)])
        U(i) == IF st(i).max_hours > 0 THEN st(i).current_hours * (D \div Den(i)) ELSE 0
        S == SeqSum([i \in 1..n |-> U(i)])
        Spread == SeqSum([i \in 1..n |-> (n * U(i) - S) * (n * U(i) - S)])
    IN \/ n <= 1
       \/ S = 0
       \/ 25 * Spread < (n - 1) * S * S

_find_transferable_assignments(assignments, underloaded_tas, stat) ==
    LET NotPreferred(a) == a.slot \notin DOMAIN tas[a.ta].preferred_slots
        Preferred(a) == a.slot \in DOMAIN tas[a.ta].preferred_slots
        candidates == SelectSeq(assignments, NotPreferred) \o SelectSeq(assignments, Preferred)
        Fits(a, i) ==
            /\ stat[underloaded_tas[i]].current_hours + slot_duration
                   <= stat[underloaded_tas[i]].max_hours
            /\ a.slot \in tas[underloaded_tas[i]].available_slots
        HasTarget(a) == \E i \in 1..Len(underloaded_tas) : Fits(a, i)
        Target(a) ==
            underloaded_tas[CHOOSE i \in 1..Len(underloaded_tas) :
                                Fits(a, i) /\ \A j \in 1..(i - 1) : ~Fits(a, j)]
        found == SelectSeq(candidates, HasTarget)
    IN [k \in 1..Len(found) |-> <<found[k], Target(found[k])>>]

_can_transfer_assignment(assignment, target_ta, ca) ==
    /\ is_available_for_slot(ca, target_ta, assignment.slot)
    /\ get_remaining_capacity(ca, target_ta) >= slot_duration
    /\ validate_assignment(Append(ca[target_ta][assignment.course], assignment.slot)) = <<>>

\* the moved assignment leaves the list instead of changing its TA
_transfer_assignment_dropping(assignment, target_ta, all_assignments, ca) ==
    LET Other(a) == a # assignment
    IN [assignments |-> SelectSeq(all_assignments, Other),
        ca |-> SetAssignments(ca, target_ta, assignment.course,
                              Append(ca[target_ta][assignment.course], assignment.slot))]

\* the list of assignments and the working sets after the transfer
_transfer_assignment(assignment, target_ta, all_assignments, ca) ==
    LET Same(i) == all_assignments[i] = assignment
        moved ==
            IF \E i \in 1..Len(all_assignments) : Same(i)
            THEN [all_assignments EXCEPT
                     ![CHOOSE i \in 1..Len(all_assignments) :
                          Same(i) /\ \A j \in 1..(i - 1) : ~Same(j)] =
                       ScheduleAssignment(target_ta, assignment.slot, assignment.course)]
            ELSE all_assignments
        given == SetAssignments(ca, target_ta, assignment.course,
                                Append(ca[target_ta][assignment.course], assignment.slot))
        source == given[assignment.ta][assignment.course]
    IN [assignments |-> moved,
        ca |-> IF InSeq(assignment.slot, source)
               THEN SetAssignments(given, assignment.ta, assignment.course,
                                   RemoveFirst(source, assignment.slot))
               ELSE given]

_update_stats_after_transfer(stat, assignment, target_ta) ==
    [ta \in DOMAIN stat |->
        IF ta = assignment.ta
        THEN LET Other(a) == a # assignment
             IN [stat[ta] EXCEPT !.current_hours = @ - slot_duration,
                                 !.assignments = SelectSeq(@, Other)]
        ELSE IF ta = target_ta
        THEN [stat[ta] EXCEPT !.current_hours = @ + slot_duration]
        ELSE stat[ta]]

_rebalance_assignments(assignments, stats, ca0) ==
    LET IsOver(ta) == Overloaded(stats.stat[ta])
        IsUnder(ta) == Underloaded(stats.stat[ta])
        overloaded_tas == SelectSeq(stats.order, IsOver)
        underloaded_tas == SelectSeq(stats.order, IsUnder)
        \* lines 122-135: the transfers of one overloaded TA
        Transfers(source, st0) ==
            LET transferable ==
                    _find_transferable_assignments(st0.stat[source].assignments,
                                                   underloaded_tas, st0.stat)
                RECURSIVE Go(_)
                Go(k) ==
                    IF k = 0
                    THEN [assignments |-> st0.assignments, ca |-> st0.ca, stat |-> st0.stat,
                          target_reduction |->
                              st0.stat[source].current_hours
                                - ((st0.stat[source].max_hours * 8) \div 10)]
                    ELSE LET st == Go(k - 1)
                             assignment == transferable[k][1]
                             target_ta == transferable[k][2]
                             moved == _transfer_assignment(assignment, target_ta,
                                                           st.assignments, st.ca)
                         IN IF st.target_reduction <= 0 THEN st
                            ELSE IF ~_can_transfer_assignment(assignment, target_ta, st.ca)
                            THEN st
                            ELSE [assignments |-> moved.assignments,
                                  ca |-> moved.ca,
                                  stat |-> _update_stats_after_transfer(st.stat, assignment,
                                                                         target_ta),
                                  target_reduction |-> st.target_reduction - slot_duration]
            IN Go(Len(transferable))
        RECURSIVE Over(_)
        Over(k) ==
            IF k = 0 THEN [assignments |-> assignments, ca |-> ca0, stat |-> stats.stat]
            ELSE LET done == Transfers(overloaded_tas[k], Over(k - 1))
                 IN [assignments |-> done.assignments, ca |-> done.ca, stat |-> done.stat]
    IN IF ~scheduling_policies.fairness_mode THEN [assignments |-> assignments, ca |-> ca0]
       ELSE IF overloaded_tas = <<>> \/ underloaded_tas = <<>>
       THEN [assignments |-> assignments, ca |-> ca0]
       ELSE [assignments |-> Over(Len(overloaded_tas)).assignments,
             ca |-> Over(Len(overloaded_tas)).ca]

balance_workloads(assignments, ca) ==
    LET workload_stats == _calculate_workload_stats(assignments)
    IN IF assignments = <<>> THEN [assignments |-> assignments, ca |-> ca]
       ELSE IF ImbalanceBelowThreshold(workload_stats)
       THEN [assignments |-> assignments, ca |-> ca]
       ELSE _rebalance_assignments(assignments, workload_stats, ca)

(***************************************************************************)
(* Inputs of the scheduling engine.                                        *)
(***************************************************************************)
\* two slots of one cell of the grid, a lab of the same number on another
\* day, and a lab of another number
TimeSlotPool ==
    << TimeSlot("sunday", 1, "tutorial"),
       TimeSlot("sunday", 1, "lab"),
       TimeSlot("monday", 1, "lab"),
       TimeSlot("sunday", 2, "lab") >>

\* the lists of at most n slots of the pool, in the order of the pool
SlotLists(n) ==
    {[i \in 1..Cardinality(S) |-> TimeSlotPool[AscendingSeq(S)[i]]] :
        S \in {T \in SUBSET (1..Len(TimeSlotPool)) : Cardinality(T) <= n}}

\* a TA has room for one slot or for every slot of a course; it is available
\* for the whole pool but for at most one slot, or prefers one slot; at most
\* MaxAttrs TAs differ from the default in that
TAObjects ==
    LET Plain(h) == [max_weekly_hours |-> h,
                     available_slots |-> Range(TimeSlotPool),
                     preferred_slots |-> <<>>]
        kinds(h) ==
            {Plain(h)}
            \cup {[Plain(h) EXCEPT !.available_slots = @ \ {x}] : x \in Range(TimeSlotPool)}
            \cup {[Plain(h) EXCEPT !.preferred_slots = (x :> 1)] : x \in Range(TimeSlotPool)}
        all == UNION {kinds(h) : h \in {slot_duration, MaxSlots * slot_duration}}
        Special(t) == t.available_slots # Range(TimeSlotPool) \/ t.preferred_slots # <<>>
    IN {f \in [1..MaxTAs -> all] :
            Cardinality({i \in 1..MaxTAs : Special(f[i])}) <= MaxAttrs}

\* the TA lists a course can have: none, or the first TAs in order
TALineUps == {[i \in 1..n |-> i] : n \in 0..MaxTAs}

\* one course of up to MaxSlots slots, or up to MaxCourses courses of up to
\* MaxSharedSlots slots; course ids are the positions in the list
CourseLists ==
    LET Courses(n, m) ==
            {[c \in 1..n |-> [id |-> c,
                              required_slots |-> rs[c],
                              assigned_tas |-> lu[c]]] :
                rs \in [1..n -> SlotLists(m)], lu \in [1..n -> TALineUps]}
    IN {<<>>} \cup Courses(1, MaxSlots)
       \cup UNION {Courses(n, MaxSharedSlots) : n \in 2..MaxCourses}

\* with tutorial_lab_independence set the other two flags are not read
SchedulingPolicySets ==
    {pol \in [tutorial_lab_independence : BOOLEAN,
              tutorial_lab_equal_count : BOOLEAN,
              tutorial_lab_number_matching : BOOLEAN,
              fairness_mode : BOOLEAN] :
        Cardinality({f \in {"tutorial_lab_independence", "tutorial_lab_equal_count",
                            "tutorial_lab_number_matching"} : pol[f]}) <= 1}

(***************************************************************************)
(* GIUScheduler.create_schedule as a state machine: one action for the     *)
(* entry, one per course of the loop of schedule_all_courses, one for the  *)
(* merge and the conflict resolution, one for the optimisation and return. *)
(***************************************************************************)
SchedulingResult(success, assignments, unassigned_slots, violations, conflicts) ==
    [success |-> success, assignments |-> assignments,
     unassigned_slots |-> unassigned_slots, policy_violations |-> violations,
     conflicts |-> conflicts, optimize |-> "unset",
     \* global_schedule.conflicts: GlobalSchedule(courses, assignments) leaves
     \* the field at its default and no statement assigns it
     global_schedule_conflicts |-> <<>>]

\* the backtracking driver is not running
IdleBT ==
    /\ ta_list = <<>>
    /\ time_slots = <<>>
    /\ policies = <<>>
    /\ stack = <<>>
    /\ ret = NoRet
    /\ timed_out = FALSE
    /\ pc = "idle"
    /\ result = [status |-> "none"]
    /\ deepest = 0

InitGS ==
    /\ courses \in CourseLists
    /\ tas \in TAObjects
    /\ scheduling_policies \in SchedulingPolicySets
    /\ current_assignments = [ta \in 1..MaxTAs |-> [c \in 1..Len(courses) |-> <<>>]]
    /\ step = "create"
    /\ locals = <<>>
    /\ scheduling_result = <<>>
    /\ previous_result = <<>>
    /\ IdleBT

\* no working set is cleared
_reset_no_assignments(ca) == ca

\* _reset_ta_assignments: the TAs of the courses get an empty working set
_reset_ta_assignments(ca) ==
    [ta \in DOMAIN ca |->
        IF \E c \in 1..Len(courses) : InSeq(ta, courses[c].assigned_tas)
        THEN [c \in 1..Len(courses) |-> <<>>]
        ELSE ca[ta]]

\* scheduler.py:35-42 and global_scheduler.py:12-25
CreateSchedule ==
    /\ step = "create"
    /\ IF courses = <<>>
       THEN /\ scheduling_result' = SchedulingResult(FALSE, <<>>, <<>>, <<>>, <<>>)
            /\ step' = "done"
            /\ UNCHANGED <<current_assignments, locals>>
       ELSE /\ current_assignments' = _reset_ta_assignments(current_assignments)
            /\ locals' = [sorted_courses |-> _sort_courses_by_priority(current_assignments'),
                          next |-> 1,
                          all_assignments |-> <<>>,
                          all_violations |-> <<>>,
                          unassigned_slots |-> <<>>]
            /\ step' = "courses"
            /\ UNCHANGED scheduling_result
    /\ UNCHANGED <<courses, tas, scheduling_policies, varsBT,
                   previous_result>>

\* lines 32-34: the required slots no assignment of the course covers
UncoveredSlots(course, course_assignments) ==
    LET Missing(slot) ==
            \A i \in 1..Len(course_assignments) : course_assignments[i].slot # slot
        missing == SelectSeq(course.required_slots, Missing)
    IN [i \in 1..Len(missing) |-> <<course.id, missing[i]>>]

\* global_scheduler.py:27-34: one turn of the loop over sorted_courses
ScheduleCourse ==
    /\ step = "courses"
    /\ locals.next <= Len(locals.sorted_courses)
    /\ \E course \in {courses[locals.sorted_courses[locals.next]]} :
       \E scheduled \in {schedule_course(course, current_assignments)} :
          /\ current_assignments' = scheduled.ca
          /\ locals' = [locals EXCEPT
                 !.next = @ + 1,
                 !.all_assignments = @ \o scheduled.assignments,
                 !.all_violations = @ \o scheduled.violations,
                 !.unassigned_slots = @ \o UncoveredSlots(course, scheduled.assignments)]
    /\ UNCHANGED <<courses, tas, scheduling_policies, step, scheduling_result, varsBT,
                   previous_result>>

\* global_scheduler.py:36-54: success is computed before the conflicts are
\* resolved
MergeAndResolve ==
    /\ step = "courses"
    /\ locals.next > Len(locals.sorted_courses)
    /\ LET conflicts == detect_conflicts(locals.all_assignments)
           success == conflicts = <<>> /\ locals.unassigned_slots = <<>>
       IN scheduling_result' =
            SchedulingResult(
                success,
                IF conflicts # <<>>
                THEN _resolve_conflicts(locals.all_assignments, current_assignments)
                ELSE locals.all_assignments,
                locals.unassigned_slots,
                locals.all_violations \o
                    (IF conflicts # <<>> THEN <<"resolved">> ELSE <<>>),
                conflicts)
    /\ step' = "merged"
    /\ UNCHANGED <<courses, tas, scheduling_policies, current_assignments, locals, varsBT,
                   previous_result>>

\* scheduler.py:44-74: optimize is the argument of create_schedule
OptimizeAndReturn ==
    /\ step = "merged"
    /\ \E optimize \in BOOLEAN :
         LET r == scheduling_result
             balanced == balance_workloads(r.assignments, current_assignments)
         IN IF optimize /\ r.success /\ r.assignments # <<>>
            THEN /\ scheduling_result' =
                      [r EXCEPT !.assignments = balanced.assignments,
                                !.success = /\ detect_conflicts(balanced.assignments) = <<>>
                                            /\ r.unassigned_slots = <<>>,
                                !.optimize = optimize]
                 /\ current_assignments' = balanced.ca
            ELSE /\ scheduling_result' = [r EXCEPT !.optimize = optimize]
                 /\ current_assignments' = current_assignments
    /\ step' = "done"
    /\ UNCHANGED <<courses, tas, scheduling_policies, locals, varsBT,
                   previous_result>>

NextGS == CreateSchedule \/ ScheduleCourse \/ MergeAndResolve \/ OptimizeAndReturn

SpecGS == InitGS /\ [][NextGS]_vars

(***************************************************************************)
(* Two calls of create_schedule on the same Course and TA objects with the *)
(* same GIUScheduler: the second call starts from the working sets the     *)
(* first one left in TA.current_assignments.                               *)
(***************************************************************************)
CallAgain ==
    /\ step = "done"
    /\ previous_result = <<>>
    /\ previous_result' = scheduling_result
    /\ scheduling_result' = <<>>
    /\ locals' = <<>>
    /\ step' = "create"
    /\ UNCHANGED <<courses, tas, scheduling_policies, current_assignments, varsBT>>

\* the inputs of create_schedule without a tutorial/lab policy, in greedy and
\* in fairness mode
InitTwice ==
    /\ InitGS
    /\ ~scheduling_policies.tutorial_lab_independence
    /\ ~scheduling_policies.tutorial_lab_equal_count
    /\ ~scheduling_policies.tutorial_lab_number_matching

NextTwice == NextGS \/ CallAgain

SpecTwice == InitTwice /\ [][NextTwice]_vars

\* global_scheduler.py:157-190, the entries the properties read
get_schedule_statistics(r) ==
    IF r.assignments = <<>>
    THEN [total_assignments |-> 0]
    ELSE [total_assignments |-> Len(r.assignments),
          conflicts_detected |-> Len(r.global_schedule_conflicts),
          policy_violations |-> Len(r.policy_violations)]

(***************************************************************************)
(* create_schedule on the scenarios of policy_test.py and simple_test.py   *)
(* and their neighbours.                                                   *)
(***************************************************************************)
\* test_number_matching_policy: two cells with a tutorial and a lab each
NumberMatchingSlots ==
    << TimeSlot("sunday", 1, "tutorial"),
       TimeSlot("sunday", 1, "lab"),
       TimeSlot("monday", 2, "tutorial"),
       TimeSlot("monday", 2, "lab") >>

\* one course with the four slots and one TA of 10 hours, available for any
\* of them; number matching is on, with or without equal count and fairness
InitNumberMatching ==
    /\ courses = <<[id |-> this_course,
                    required_slots |-> NumberMatchingSlots,
                    assigned_tas |-> <<1>>]>>
    /\ tas \in {<<[max_weekly_hours |-> 10,
                   available_slots |-> A,
                   preferred_slots |-> <<>>]>> : A \in SUBSET Range(NumberMatchingSlots)}
    /\ scheduling_policies \in [tutorial_lab_independence : {FALSE},
                                tutorial_lab_equal_count : BOOLEAN,
                                tutorial_lab_number_matching : {TRUE},
                                fairness_mode : BOOLEAN]
    /\ current_assignments = <<[c \in 1..1 |-> <<>>]>>

\* test_conflict_detection: two courses that require Sunday-1-tutorial (and
\* possibly a second slot) and share two TAs of 2 or 4 hours, available for
\* every slot; no tutorial/lab policy, with or without fairness
InitSharedSlot ==
    /\ courses \in {[c \in 1..2 |-> [id |-> c,
                                     required_slots |-> rs[c],
                                     assigned_tas |-> <<1, 2>>]] :
                       rs \in [1..2 -> {<<TimeSlot("sunday", 1, "tutorial")>>,
                                        <<TimeSlot("sunday", 1, "tutorial"),
                                          TimeSlot("monday", 2, "lab")>>}]}
    /\ tas \in [1..2 -> {[max_weekly_hours |-> h,
                          available_slots |-> Range(NumberMatchingSlots),
                          preferred_slots |-> <<>>] : h \in {2, 4}}]
    /\ scheduling_policies \in [tutorial_lab_independence : {FALSE},
                                tutorial_lab_equal_count : {FALSE},
                                tutorial_lab_number_matching : {FALSE},
                                fairness_mode : BOOLEAN]
    /\ current_assignments = [ta \in 1..2 |-> [c \in 1..2 |-> <<>>]]

InitSC ==
    /\ InitNumberMatching \/ InitSharedSlot
    /\ step = "create"
    /\ locals = <<>>
    /\ scheduling_result = <<>>
    /\ previous_result = <<>>
    /\ IdleBT

SpecSC == InitSC /\ [][NextGS]_vars

(***************************************************************************)
(* PolicyValidator called on its own, for the TA tas[1] and the course     *)
(* courses[1]: locals holds the method called, its arguments and the value *)
(* it returned.                                                            *)
(***************************************************************************)
MaxCombination == 4

\* tutorials and labs of the numbers 1 and 2; Monday-1 holds a tutorial and
\* a lab (one cell of the grid)
ValidatorSlotPool ==
    << TimeSlot("sunday", 1, "tutorial"),
       TimeSlot("monday", 1, "tutorial"),
       TimeSlot("monday", 1, "lab"),
       TimeSlot("sunday", 2, "tutorial"),
       TimeSlot("monday", 2, "lab") >>

\* the slots of the list that are in S, in the order of the list
SlotsIn(slots, S) ==
    LET Member(x) == x \in S
    IN SelectSeq(slots, Member)

\* every combination of the three tutorial/lab flags
ValidatorPolicySets ==
    [tutorial_lab_independence : BOOLEAN,
     tutorial_lab_equal_count : BOOLEAN,
     tutorial_lab_number_matching : BOOLEAN,
     fairness_mode : {FALSE}]

\* the TA is available for some of the course's slots and may hold a slot of
\* another course at Monday-1
InitPV ==
    /\ courses \in {<<[id |-> this_course,
                       required_slots |-> SlotsIn(ValidatorSlotPool, S),
                       assigned_tas |-> <<1>>]>> : S \in SUBSET Range(ValidatorSlotPool)}
    /\ tas \in {<<[max_weekly_hours |-> MaxCombination * slot_duration,
                   available_slots |-> A,
                   preferred_slots |-> <<>>]>> :
                    A \in SUBSET Range(courses[1].required_slots)}
    /\ scheduling_policies \in ValidatorPolicySets
    /\ current_assignments \in
          {<<[c \in {this_course, other_course} |->
                IF c = other_course THEN held ELSE <<>>]>> :
              held \in {<<>>, <<TimeSlot("monday", 1, "tutorial")>>}}
    /\ step = "validator"
    /\ locals = <<>>
    /\ scheduling_result = <<>>
    /\ previous_result = <<>>
    /\ IdleBT

\* validator.get_valid_slot_combinations(ta, course, max_slots)
GetValidSlotCombinations ==
    /\ step = "validator"
    /\ \E max_slots \in 0..MaxCombination :
          locals' = [call |-> "get_valid_slot_combinations",
                     max_slots |-> max_slots,
                     returned |-> get_valid_slot_combinations(current_assignments, 1,
                                                              courses[1], max_slots)]
    /\ step' = "returned"
    /\ UNCHANGED <<varsBT, previous_result, courses, tas, scheduling_policies, current_assignments,
                   scheduling_result>>

\* validator.validate_assignment(ta, course, proposed_slots) for a list of
\* slots of the course
ValidateAssignment ==
    /\ step = "validator"
    /\ \E S \in SUBSET Range(courses[1].required_slots) :
          locals' = [call |-> "validate_assignment",
                     proposed_slots |-> SlotsIn(courses[1].required_slots, S),
                     returned |-> validate_assignment(SlotsIn(courses[1].required_slots, S))]
    /\ step' = "returned"
    /\ UNCHANGED <<varsBT, previous_result, courses, tas, scheduling_policies, current_assignments,
                   scheduling_result>>

NextPV == GetValidSlotCombinations \/ ValidateAssignment

SpecPV == InitPV /\ [][NextPV]_vars

(***************************************************************************)
(* WorkloadBalancer.balance_workloads called alone, on a schedule without  *)
(* double booking whose working sets hold the slots of the assignment list *)
(* and keep every TA within max_weekly_hours.                              *)
(***************************************************************************)
\* a cell with a tutorial and a lab, a lab and a tutorial of the same number
\* on other days, and a lab of another number
BalancerSlotPool ==
    << TimeSlot("sunday", 1, "tutorial"),
       TimeSlot("sunday", 1, "lab"),
       TimeSlot("monday", 1, "lab"),
       TimeSlot("tuesday", 1, "tutorial"),
       TimeSlot("sunday", 2, "lab") >>

\* the assignment list of a schedule: owner[i] is the TA of the i-th slot of
\* the pool or 0, course_of[i] its course
AssignmentList(pool, owner, course_of) ==
    LET held == AscendingSeq({i \in 1..Len(pool) : owner[i] # 0})
    IN [k \in 1..Len(held) |->
           ScheduleAssignment(owner[held[k]], pool[held[k]], course_of[held[k]])]

\* ta.current_assignments of every TA as schedule_course leaves it: the
\* slots of the TA's assignments, by course
WorkingSets(assignments, n_tas, n_courses) ==
    [ta \in 1..n_tas |->
        [c \in 1..n_courses |->
            LET Mine(a) == a.ta = ta /\ a.course = c
                mine == SelectSeq(assignments, Mine)
            IN [k \in 1..Len(mine) |-> mine[k].slot]]]

\* the course objects of a schedule: the slots assigned in the course
CoursesOf(assignments, n_tas, n_courses) ==
    [c \in 1..n_courses |->
        LET Here(a) == a.course = c
            here == SelectSeq(assignments, Here)
        IN [id |-> c,
            required_slots |-> [k \in 1..Len(here) |-> here[k].slot],
            assigned_tas |-> [i \in 1..n_tas |-> i]]]

\* TAs with room for two slots or for the whole pool; at most MaxAttrs of
\* them miss one slot of the pool or prefer one
BalancerTAObjects ==
    LET Plain(h) == [max_weekly_hours |-> h,
                     available_slots |-> Range(BalancerSlotPool),
                     preferred_slots |-> <<>>]
        kinds(h) ==
            {Plain(h)}
            \cup {[Plain(h) EXCEPT !.available_slots = @ \ {x}] : x \in Range(BalancerSlotPool)}
            \cup {[Plain(h) EXCEPT !.preferred_slots = (x :> 1)] : x \in Range(BalancerSlotPool)}
        all == UNION {kinds(h) : h \in {2 * slot_duration,
                                        Len(BalancerSlotPool) * slot_duration}}
        Special(t) == t.available_slots # Range(BalancerSlotPool) \/ t.preferred_slots # <<>>
    IN {f \in [1..MaxTAs -> all] :
            Cardinality({i \in 1..MaxTAs : Special(f[i])}) <= MaxAttrs}

\* the last slot of the pool may belong to a second course
InitSmallSchedule ==
    /\ tas \in BalancerTAObjects
    /\ scheduling_policies \in SchedulingPolicySets
    /\ \E owner \in [1..Len(BalancerSlotPool) -> 0..MaxTAs],
          last_course \in {this_course, other_course} :
          /\ locals = [assignments |->
                          AssignmentList(BalancerSlotPool, owner,
                              [i \in 1..Len(BalancerSlotPool) |->
                                  IF i = Len(BalancerSlotPool) THEN last_course
                                  ELSE this_course])]
          /\ current_assignments = WorkingSets(locals.assignments, MaxTAs, other_course)
          /\ courses = CoursesOf(locals.assignments, MaxTAs, other_course)

\* four days of three slots
ThresholdSlotPool ==
    << TimeSlot("sunday", 1, "tutorial"), TimeSlot("sunday", 2, "lab"),
       TimeSlot("sunday", 3, "tutorial"),
       TimeSlot("monday", 1, "lab"), TimeSlot("monday", 2, "tutorial"),
       TimeSlot("monday", 3, "lab"),
       TimeSlot("tuesday", 1, "tutorial"), TimeSlot("tuesday", 2, "lab"),
       TimeSlot("tuesday", 3, "tutorial"),
       TimeSlot("wednesday", 1, "lab"), TimeSlot("wednesday", 2, "tutorial"),
       TimeSlot("wednesday", 3, "lab") >>

\* four TAs holding one day each, of 7 or 11 weekly hours, available for the
\* whole pool or for their own day only
InitThresholdSchedule ==
    /\ tas \in {[i \in 1..4 |->
                   [max_weekly_hours |-> h[i],
                    available_slots |->
                        IF whole[i] THEN Range(ThresholdSlotPool)
                        ELSE {ThresholdSlotPool[k] : k \in (3 * i - 2)..(3 * i)},
                    preferred_slots |-> <<>>]] :
                 h \in [1..4 -> {7, 11}], whole \in [1..4 -> BOOLEAN]}
    /\ scheduling_policies \in SchedulingPolicySets
    /\ locals = [assignments |->
                    AssignmentList(ThresholdSlotPool,
                                   [i \in 1..Len(ThresholdSlotPool) |-> (i + 2) \div 3],
                                   [i \in 1..Len(ThresholdSlotPool) |-> this_course])]
    /\ current_assignments = WorkingSets(locals.assignments, 4, this_course)
    /\ courses = CoursesOf(locals.assignments, 4, this_course)

InitWB ==
    /\ InitSmallSchedule \/ InitThresholdSchedule
    /\ detect_conflicts(locals.assignments) = <<>>
    /\ \A ta \in DOMAIN tas :
          /\ get_remaining_capacity(current_assignments, ta) >= 0
          /\ \A c \in DOMAIN current_assignments[ta] :
                Range(current_assignments[ta][c]) \subseteq tas[ta].available_slots
    /\ step = "balancer"
    /\ scheduling_result = <<>>
    /\ previous_result = <<>>
    /\ IdleBT

\* balancer.balance_workloads(assignments): the returned list and the
\* working sets of the TAs after the call
BalanceWorkloads ==
    /\ step = "balancer"
    /\ scheduling_result' =
          [assignments |->
              balance_workloads(locals.assignments, current_assignments).assignments]
    /\ current_assignments' = balance_workloads(locals.assignments, current_assignments).ca
    /\ locals' = [assignments |-> locals.assignments, ca |-> current_assignments]
    /\ step' = "balanced"
    /\ UNCHANGED <<varsBT, previous_result, courses, tas, scheduling_policies>>

NextWB == BalanceWorkloads

SpecWB == InitWB /\ [][NextWB]_vars

(***************************************************************************)
(* conflict_resolver.ConflictResolver and GIUScheduler.resolve_conflicts.  *)
(* A ConflictInfo is [assignments, conflict_type, severity].  The          *)
(* assignments of a list are pairwise different, so that the identity of   *)
(* an assignment object and its equality coincide.                         *)
(***************************************************************************)
\* the positions of a list whose key occurs for the first time
FirstsByKey(keys) ==
    AscendingSeq({i \in 1..Len(keys) : \A j \in 1..(i - 1) : keys[j] # keys[i]})

_detect_double_bookings(assignments) ==
    LET keys == [i \in 1..Len(assignments) |->
                    <<assignments[i].ta, assignments[i].slot.day,
                      assignments[i].slot.slot_number>>]
        firsts == FirstsByKey(keys)
        groups == [k \in 1..Len(firsts) |->
                      [i \in 1..Len(AscendingSeq({i \in 1..Len(keys) : keys[i] = keys[firsts[k]]}))
                          |-> assignments[AscendingSeq({j \in 1..Len(keys) :
                                                           keys[j] = keys[firsts[k]]})[i]]]]
        Many(g) == Len(g) > 1
        many == SelectSeq(groups, Many)
    IN [k \in 1..Len(many) |->
           [assignments |-> many[k], conflict_type |-> "ta_double_booking", severity |-> 10]]

_detect_overcapacity(assignments) ==
    LET keys == [i \in 1..Len(assignments) |-> assignments[i].ta]
        firsts == FirstsByKey(keys)
        Of(ta) == LET Mine(a) == a.ta = ta IN SelectSeq(assignments, Mine)
        groups == [k \in 1..Len(firsts) |-> Of(keys[firsts[k]])]
        Over(g) == Len(g) * slot_duration > tas[g[1].ta].max_weekly_hours
        over == SelectSeq(groups, Over)
    IN [k \in 1..Len(over) |->
           [assignments |-> over[k], conflict_type |-> "overcapacity", severity |-> 8]]

\* _detect_policy_violations returns no conflict
detect_all_conflicts(assignments) ==
    _detect_double_bookings(assignments) \o _detect_overcapacity(assignments)

\* max(0, 10 - preference_rank) for a preferred slot, else 0
PreferencePoints(a) ==
    IF a.slot \in DOMAIN tas[a.ta].preferred_slots
    THEN Max0(10 - tas[a.ta].preferred_slots[a.slot])
    ELSE 0

\* assignment_score as the fraction <<numerator, denominator>>
assignment_score(a, ca) ==
    LET required == Len(courses[a.course].required_slots)
        listed == IF Len(courses[a.course].assigned_tas) > 1
                  THEN Len(courses[a.course].assigned_tas) ELSE 1
        bonus == IF get_total_assigned_hours(ca, a.ta) * 10 < 8 * tas[a.ta].max_weekly_hours
                 THEN 2 ELSE 0
    IN <<(PreferencePoints(a) + bonus) * listed + required, listed>>

_select_best_assignment(assignments, ca) ==
    LET Better(i, j) ==
            assignment_score(assignments[i], ca)[1] * assignment_score(assignments[j], ca)[2]
              > assignment_score(assignments[j], ca)[1] * assignment_score(assignments[i], ca)[2]
    IN assignments[CHOOSE k \in 1..Len(assignments) :
                      /\ \A j \in 1..Len(assignments) : ~Better(j, k)
                      /\ \A j \in 1..(k - 1) : Better(k, j)]

\* _assignment_removal_priority as the fraction <<numerator, denominator>>
_assignment_removal_priority(a) ==
    LET listed == Len(courses[a.course].assigned_tas)
        required == IF Len(courses[a.course].required_slots) > 1
                    THEN Len(courses[a.course].required_slots) ELSE 1
    IN <<listed - PreferencePoints(a) * required, required>>

_resolve_double_booking(conflict, resolved_assignments, ca) ==
    LET Conflicting(a) == InSeq(a, conflict.assignments)
        NotConflicting(a) == ~InSeq(a, conflict.assignments)
        conflicting_assignments == SelectSeq(resolved_assignments, Conflicting)
    IN IF Len(conflicting_assignments) <= 1 THEN resolved_assignments
       ELSE Append(SelectSeq(resolved_assignments, NotConflicting),
                   _select_best_assignment(conflicting_assignments, ca))

\* every assignment of the TA is kept
_resolve_overcapacity_keep_all(conflict, resolved_assignments) == resolved_assignments

_resolve_overcapacity(conflict, resolved_assignments) ==
    LET Mine(a) == InSeq(a, conflict.assignments)
        NotMine(a) == ~InSeq(a, conflict.assignments)
        overcapacity_assignments == SelectSeq(resolved_assignments, Mine)
        Less(a, b) ==
            _assignment_removal_priority(a)[1] * _assignment_removal_priority(b)[2]
              < _assignment_removal_priority(b)[1] * _assignment_removal_priority(a)[2]
        sorted_assignments == LessSorted(overcapacity_assignments, Less)
        \* every slot lasts slot_duration hours: the loop keeps the assignments
        \* while kept_hours + duration <= max_weekly_hours
        room == tas[overcapacity_assignments[1].ta].max_weekly_hours \div slot_duration
    IN IF overcapacity_assignments = <<>> THEN resolved_assignments
       ELSE IF Len(overcapacity_assignments) * slot_duration
                 <= tas[overcapacity_assignments[1].ta].max_weekly_hours
       THEN resolved_assignments
       ELSE SelectSeq(resolved_assignments, NotMine)
              \o SubSeq(sorted_assignments, 1, room)

\* the assignments of the conflicts, each once, in the order of their first
\* occurrence
unique_assignments(conflicts) ==
    LET Assignments(k) == conflicts[k].assignments
        all_assignments == Flatten(Len(conflicts), Assignments)
        firsts == FirstsByKey(all_assignments)
    IN [k \in 1..Len(firsts) |-> all_assignments[firsts[k]]]

\* sorted(conflicts, key = severity, reverse = True): stable
sorted_conflicts(conflicts) ==
    LET Less(c, d) == c.severity > d.severity
    IN LessSorted(conflicts, Less)

resolve_conflicts_automatically(conflicts, ca) ==
    LET sorted == sorted_conflicts(conflicts)
        RECURSIVE Go(_)
        Go(k) ==
            IF k = 0 THEN unique_assignments(conflicts)
            ELSE IF sorted[k].conflict_type = "ta_double_booking"
            THEN _resolve_double_booking(sorted[k], Go(k - 1), ca)
            ELSE _resolve_overcapacity(sorted[k], Go(k - 1))
    IN IF conflicts = <<>> THEN <<>> ELSE Go(Len(sorted))

\* GIUScheduler.resolve_conflicts: the result it returns
resolve_conflicts(r, auto_resolve, ca) ==
    LET conflicts == detect_all_conflicts(r.assignments)
        resolved_assignments == resolve_conflicts_automatically(conflicts, ca)
    IN IF r.success THEN r
       ELSE IF auto_resolve
       THEN [r EXCEPT !.assignments = resolved_assignments,
                      !.success = /\ detect_conflicts(resolved_assignments) = <<>>
                                  /\ r.unassigned_slots = <<>>]
       ELSE [r EXCEPT !.success = FALSE,
                      !.policy_violations = Append(@, "manual_suggestions")]

\* course 1 with a cell of two slots and a third slot, course 2 with the
\* third slot of course 1; both courses list every TA
ResolverCourses ==
    << [id |-> this_course,
        required_slots |-> << TimeSlot("sunday", 1, "tutorial"),
                              TimeSlot("sunday", 1, "lab"),
                              TimeSlot("monday", 1, "lab") >>,
        assigned_tas |-> [i \in 1..MaxTAs |-> i]],
       [id |-> other_course,
        required_slots |-> << TimeSlot("monday", 1, "lab") >>,
        assigned_tas |-> [i \in 1..MaxTAs |-> i]] >>

\* the (course, slot) pairs of the courses, course by course
ResolverPairs ==
    LET Pairs(c) == [i \in 1..Len(ResolverCourses[c].required_slots) |->
                        <<ResolverCourses[c].id, ResolverCourses[c].required_slots[i]>>]
    IN Flatten(Len(ResolverCourses), Pairs)

\* TAs with room for one to MaxSlots slots, available for every slot; at
\* most MaxAttrs of them prefer a slot
ResolverTAObjects ==
    LET Slots == Range(ResolverCourses[1].required_slots)
        Plain(h) == [max_weekly_hours |-> h,
                     available_slots |-> Slots,
                     preferred_slots |-> <<>>]
        kinds(h) == {Plain(h)}
                    \cup {[Plain(h) EXCEPT !.preferred_slots = (x :> 1)] : x \in Slots}
        all == UNION {kinds(k * slot_duration) : k \in 1..MaxSlots}
    IN {f \in [1..MaxTAs -> all] :
            Cardinality({i \in 1..MaxTAs : f[i].preferred_slots # <<>>}) <= MaxAttrs}

\* a schedule in which every (course, slot) pair has one TA or none, so that
\* a TA can stand twice in a cell and hold more hours than it has; the result
\* holds it with the pairs left unassigned, and success as
\* schedule_all_courses computes it
InitCR ==
    /\ courses = ResolverCourses
    /\ tas \in ResolverTAObjects
    /\ scheduling_policies \in {pol \in SchedulingPolicySets :
                                   \A f \in DOMAIN pol : ~pol[f]}
    /\ \E owner \in [1..Len(ResolverPairs) -> 0..MaxTAs] :
          /\ scheduling_result =
                LET held == AscendingSeq({i \in 1..Len(ResolverPairs) : owner[i] # 0})
                    free == AscendingSeq({i \in 1..Len(ResolverPairs) : owner[i] = 0})
                    assignments == [k \in 1..Len(held) |->
                                       ScheduleAssignment(owner[held[k]],
                                                          ResolverPairs[held[k]][2],
                                                          ResolverPairs[held[k]][1])]
                IN SchedulingResult(detect_conflicts(assignments) = <<>> /\ free = <<>>,
                                    assignments,
                                    [k \in 1..Len(free) |-> ResolverPairs[free[k]]],
                                    <<>>, <<>>)
          /\ current_assignments =
                WorkingSets(scheduling_result.assignments, MaxTAs, Len(ResolverCourses))
    /\ step = "resolver"
    /\ locals = <<>>
    /\ previous_result = <<>>
    /\ IdleBT

\* conflict_resolver.resolve_conflicts_automatically(detect_all_conflicts(assignments))
ResolveConflictsAutomatically ==
    /\ step = "resolver"
    /\ locals' = [call |-> "resolve_conflicts_automatically",
                  conflicts |-> detect_all_conflicts(scheduling_result.assignments),
                  returned |-> resolve_conflicts_automatically(
                                   detect_all_conflicts(scheduling_result.assignments),
                                   current_assignments)]
    /\ step' = "resolved"
    /\ UNCHANGED <<varsBT, previous_result, courses, tas, scheduling_policies,
                   current_assignments, scheduling_result>>

\* scheduler.resolve_conflicts(result, auto_resolve)
ResolveConflicts ==
    /\ step = "resolver"
    /\ \E auto_resolve \in BOOLEAN :
          /\ locals' = [call |-> "resolve_conflicts",
                        auto_resolve |-> auto_resolve,
                        result |-> scheduling_result]
          /\ scheduling_result' = resolve_conflicts(scheduling_result, auto_resolve,
                                                    current_assignments)
    /\ step' = "resolved"
    /\ UNCHANGED <<varsBT, previous_result, courses, tas, scheduling_policies,
                   current_assignments>>

NextCR == ResolveConflictsAutomatically \/ ResolveConflicts

SpecCR == InitCR /\ [][NextCR]_vars

(***************************************************************************)
(* GlobalScheduler.optimize_global_schedule called on a result whose       *)
(* schedule keeps every TA within its availability and its weekly hours.   *)
(***************************************************************************)
\* global_scheduler.py:213-249.  The dictionaries keep the TAs in the order
\* of their first assignment; mean_workload is total / n, so that a
\* comparison with mean_workload + 2 is made on the n-fold of both sides.
_balance_workloads(assignments) ==
    IF ~scheduling_policies.fairness_mode THEN assignments
    ELSE
    LET firsts == FirstsByKey([i \in 1..Len(assignments) |-> assignments[i].ta])
        n == Len(firsts)
        total == Len(assignments) * slot_duration
        assigns(k) ==
            LET Mine(a) == a.ta = assignments[firsts[k]].ta
            IN SelectSeq(assignments, Mine)
        \* sorted(assigns, key = slot in preferred_slots): a stable sort
        sorted_assigns(k) ==
            LET Plain(a) == a.slot \notin DOMAIN tas[a.ta].preferred_slots
                Preferred(a) == a.slot \in DOMAIN tas[a.ta].preferred_slots
            IN SelectSeq(assigns(k), Plain) \o SelectSeq(assigns(k), Preferred)
        \* the loop stops at the first assignment that does not fit
        target_assigns(k) ==
            LET fits == {m \in 0..Len(sorted_assigns(k)) :
                            \A q \in 1..m : q * slot_duration * n <= total + 2 * n}
                kept == CHOOSE m \in fits : \A q \in fits : q <= m
            IN SubSeq(sorted_assigns(k), 1, kept)
        balanced(k) ==
            IF Len(assigns(k)) * slot_duration * n > total + 2 * n
            THEN target_assigns(k)
            ELSE assigns(k)
    IN IF n = 0 THEN assignments ELSE Flatten(n, balanced)

\* global_scheduler.py:192-211
optimize_global_schedule(r) ==
    IF ~r.success THEN r
    ELSE SchedulingResult(detect_conflicts(_balance_workloads(r.assignments)) = <<>>,
                          _balance_workloads(r.assignments),
                          r.unassigned_slots,
                          r.policy_violations,
                          <<>>)

\* the result of a schedule over the balancer's pool: success as
\* schedule_all_courses computes it, every slot of the courses assigned
InitOG ==
    /\ InitSmallSchedule
    /\ \A ta \in DOMAIN tas :
          /\ get_remaining_capacity(current_assignments, ta) >= 0
          /\ \A c \in DOMAIN current_assignments[ta] :
                Range(current_assignments[ta][c]) \subseteq tas[ta].available_slots
    /\ scheduling_result =
          SchedulingResult(detect_conflicts(locals.assignments) = <<>>,
                           locals.assignments, <<>>, <<>>,
                           detect_conflicts(locals.assignments))
    /\ step = "optimizer"
    /\ previous_result = <<>>
    /\ IdleBT

\* scheduler.optimize_global_schedule(result); the argument is kept in locals
OptimizeGlobalSchedule ==
    /\ step = "optimizer"
    /\ scheduling_result' = optimize_global_schedule(scheduling_result)
    /\ locals' = [assignments |-> locals.assignments, result |-> scheduling_result]
    /\ step' = "optimized"
    /\ UNCHANGED <<varsBT, previous_result, courses, tas, scheduling_policies,
                   current_assignments>>

NextOG == OptimizeGlobalSchedule

SpecOG == InitOG /\ [][NextOG]_vars

(***************************************************************************)
(* Properties of the backtracking driver.                                  *)
(***************************************************************************)
DoneOk == pc = "done" /\ result.status = "ok"

\* the TA dictionary the loop placed in assignment a
PlacedTA(a) == ta_list[a.ta_id]

OnDayOff(a) == PlacedTA(a).day_off # "none" /\ PlacedTA(a).day_off = a.day

OnBlockedSlot(a) == <<a.day, a.slot_number>> \in PlacedTA(a).blocked_slots

\* every partial assignment the driver holds: the current_assignments of
\* every activation, and the list a finished call returned
Partials ==
    {stack[i].cur : i \in 1..Len(stack)}
      \cup (IF ret # NoRet THEN {ret.assignments} ELSE {})

\* the hours of the TA with this id in a list of assignments
RECURSIVE HoursOf(_, _)
HoursOf(cur, ta_id) ==
    IF cur = <<>> THEN 0
    ELSE (IF Head(cur).ta_id = ta_id THEN Head(cur).duration ELSE 0)
         + HoursOf(Tail(cur), ta_id)

\* C4: on every successful result of the driver no assignment places a TA on
\* its day-off or in one of its blocked (day, slot_number) pairs.
C4_SuccessRespectsAvailability ==
    (DoneOk /\ result.success) =>
        \A i \in 1..Len(result.assignments) :
            /\ ~OnDayOff(result.assignments[i])
            /\ ~OnBlockedSlot(result.assignments[i])

\* C5: in every partial assignment built by the driver, strict or relaxed,
\* no TA is assigned twice at one (day, slot_number), no premasters TA is on
\* Saturday at a slot other than 1 and 2, no TA with a non-zero allocation
\* for the course exceeds it, and no TA exceeds its capacity (the total of
\* its allocated hours, where it has any).
C5_HardConstraintsKept ==
    \A cur \in Partials :
        /\ \A i, j \in 1..Len(cur) :
              (/\ cur[i].ta_id = cur[j].ta_id
               /\ cur[i].day = cur[j].day
               /\ cur[i].slot_number = cur[j].slot_number) => i = j
        /\ \A i \in 1..Len(cur) :
              ~is_premasters_violation(PlacedTA(cur[i]), cur[i].day, cur[i].slot_number)
        /\ \A t \in 1..Len(ta_list) :
              LET allocated == FirstAllocation(ta_list[t].course_allocations, this_course)
              IN allocated # 0 => HoursOf(cur, ta_list[t].id) <= allocated
        /\ \A t \in 1..Len(ta_list) :
              total_allocated_hours(ta_list[t]) # 0 =>
                  HoursOf(cur, ta_list[t].id) <= total_allocated_hours(ta_list[t])

\* the requested slots no assignment of the list covers
Uncovered(assignments) ==
    {i \in 1..Len(time_slots) :
        ~\E k \in 1..Len(assignments) :
            /\ assignments[k].day = time_slots[i].day
            /\ assignments[k].slot_number = time_slots[i].slot
            /\ assignments[k].slot_type = time_slots[i].type}

\* C6: success is true if and only if no slot is unassigned, no conflict
\* remains in the final schedule and no relaxation was used to build it.
C6_SuccessIff ==
    DoneOk =>
        (result.success <=>
            /\ Uncovered(result.assignments) = {}
            /\ result.failed_assignments = <<>>
            /\ parallel_conflicts(result.assignments) = {}
            /\ \A i \in 1..Len(result.assignments) : ~result.assignments[i].relaxed)

\* the slot has no candidate, not even a relaxed one, next to these assignments
NoCandidate(slot_req, cur) == get_all_candidate_tas_for_slot(slot_req, cur, TRUE) = <<>>

\* C8: when the search ends because a slot has no candidate even after
\* relaxation (no guard fired), the result is a failure that records exactly
\* the slots without a candidate as failed and keeps every other slot assigned.
C8_InfeasibleSlotRecorded ==
    (DoneOk /\ ~timed_out /\ ~result.success) =>
        /\ \A i \in 1..Len(ret.failed) : NoCandidate(ret.failed[i], result.assignments)
        /\ \A i \in Uncovered(result.assignments) :
              \E k \in 1..Len(ret.failed) : ret.failed[k] = time_slots[i]

\* C9: when the depth guard or the timeout fired, the driver returns the
\* deepest partial solution the search reached, with success = false.
C9_DeepestPartialReturned ==
    (DoneOk /\ timed_out /\ deepest > 0) =>
        /\ ~result.success
        /\ Len(result.assignments) = deepest

\* C10: a placement made through the relaxed candidate list is reported in
\* the violations of the result.
C10_RelaxedPlacementReported ==
    DoneOk =>
        ((\E i \in 1..Len(result.assignments) : result.assignments[i].relaxed)
            => result.policy_violations > 0)

\* the assignments made when slot i is given to TA ch[i], for the first k slots
RECURSIVE StrictPlacement(_, _)
StrictPlacement(ch, k) ==
    IF k = 0 THEN <<>>
    ELSE Append(StrictPlacement(ch, k - 1),
                test_assignment(ta_list[ch[k]], time_slots[k], FALSE))

\* a complete assignment exists in which every placement passes the strict
\* filter (day off and blocked slots included)
StrictFeasible ==
    \E ch \in [1..Len(time_slots) -> 1..Len(ta_list)] :
        \A k \in 1..Len(time_slots) :
            passes_candidate_filter(ta_list[ch[k]], time_slots[k],
                                    StrictPlacement(ch, k - 1), FALSE)

\* C11: when a complete assignment satisfying all strict constraints exists,
\* no placement of the result the driver returns was made through the
\* relaxed candidate list.
C11_MonotoneRelaxation ==
    (DoneOk /\ StrictFeasible) =>
        \A i \in 1..Len(result.assignments) : ~result.assignments[i].relaxed

\* the constraints of the candidate filter that are no tutorial/lab policy
SatisfiesHardConstraints(ta, slot_req, cur) ==
    /\ ~is_premasters_violation(ta, slot_req.day, slot_req.slot)
    /\ ~is_blocked(ta, slot_req)
    /\ ~is_day_off(ta, slot_req)
    /\ ~is_ta_already_assigned_to_slot(ta, slot_req, cur)
    /\ ~exceeds_hour_allocation(ta, slot_req, cur)

\* C20: with tutorial_lab_independence = true, at every activation of the
\* backtracking that has a slot to assign, every TA that satisfies the hard
\* constraints for the slot (and is not excluded by number matching) is among
\* the candidates, whatever the types of the slots the TA already holds.
C20_IndependenceImposesNoRestriction ==
    (pc # "idle" /\ policies.tutorial_lab_independence) =>
        \A k \in 1..Len(stack) :
            stack[k].idx <= Len(time_slots) =>
                \A i \in 1..Len(ta_list) :
                    (/\ SatisfiesHardConstraints(ta_list[i], time_slots[stack[k].idx],
                                                 stack[k].cur)
                     /\ ~violates_tutorial_lab_number_matching(
                            ta_list[i], time_slots[stack[k].idx], stack[k].cur))
                        => InSeq(i, get_all_candidate_tas_for_slot(
                                        time_slots[stack[k].idx], stack[k].cur, FALSE))

\* the tutorial and the lab of every number stand with one TA
PairedByNumber(assignments) ==
    \A i, j \in 1..Len(assignments) :
        (/\ assignments[i].slot_type = "tutorial"
         /\ assignments[j].slot_type = "lab"
         /\ assignments[i].tutorial_number # 0
         /\ assignments[i].tutorial_number = assignments[j].lab_number)
            => assignments[i].ta_id = assignments[j].ta_id

DistinctNames == \A i, j \in 1..Len(ta_list) : ta_list[i].name = ta_list[j].name => i = j

\* with TA names that are all different the pairing holds
C21_PairedWithDistinctNames ==
    (DoneOk /\ result.success /\ policies.tutorial_lab_number_matching /\ DistinctNames)
        => PairedByNumber(result.assignments)

\* C21: with tutorial_lab_number_matching active, in every complete
\* assignment the driver returns with success the tutorial numbered n and the
\* lab numbered n of the request are assigned to the same TA, for every n and
\* every order of the slots in the request.
C21_NumberMatchingPairs ==
    (DoneOk /\ result.success /\ policies.tutorial_lab_number_matching)
        => PairedByNumber(result.assignments)

\* the driver returned success with one assignment per requested slot
CompleteSuccess ==
    /\ DoneOk
    /\ result.success
    /\ Len(result.assignments) = Len(time_slots)
    /\ \A k \in 1..Len(time_slots) :
          /\ result.assignments[k].day = time_slots[k].day
          /\ result.assignments[k].slot_number = time_slots[k].slot
          /\ result.assignments[k].slot_type = time_slots[k].type

\* C28: backtracking completeness: when the request has at most max_depth
\* slots, the timeout did not fire and some assignment of TAs to all the
\* requested slots passes the strict candidate filter, the driver returns
\* success = true with exactly one assignment per requested slot, whatever
\* the candidate order
C28_FeasibleRequestSucceeds ==
    (pc = "done" /\ StrictFeasible /\ ~timed_out /\ Len(time_slots) <= max_depth)
        => CompleteSuccess

\* the same, for TA lists in which every name is different
C28_CompleteWithDistinctNames ==
    DistinctNames => C28_FeasibleRequestSucceeds

(***************************************************************************)
(* Properties of the scheduling engine.                                    *)
(***************************************************************************)
\* schedule_all_courses has returned its SchedulingResult
Merged == step = "merged"

\* create_schedule has returned its SchedulingResult
ResultReturned == step = "done"

NoDoubleBooking(assignments) ==
    \A i, j \in 1..Len(assignments) :
        (/\ assignments[i].ta = assignments[j].ta
         /\ assignments[i].slot.day = assignments[j].slot.day
         /\ assignments[i].slot.slot_number = assignments[j].slot.slot_number) => i = j

\* C1: the schedule schedule_all_courses returns, after the merge and the
\* conflict resolution, holds at most one assignment per (TA id, day,
\* slot_number), whatever success is, in greedy and in fairness mode.
C1_NoDoubleBookingAfterMerge ==
    Merged => NoDoubleBooking(scheduling_result.assignments)

\* conflicts were detected after the merge and the resolution left a schedule
C1_ConflictsResolved ==
    /\ Merged
    /\ scheduling_result.conflicts # <<>>
    /\ scheduling_result.assignments # <<>>

\* the hours of a TA over all courses of a schedule
AssignedHours(assignments, ta) ==
    Cardinality({i \in 1..Len(assignments) : assignments[i].ta = ta}) * slot_duration

\* C2: on every result of create_schedule with success = true, every TA's
\* assigned hours over all courses are at most its max_weekly_hours.
C2_SuccessWithinWeeklyHours ==
    (ResultReturned /\ scheduling_result.success) =>
        \A ta \in DOMAIN tas :
            AssignedHours(scheduling_result.assignments, ta) <= tas[ta].max_weekly_hours

\* the assignments of one type a TA has in a course
CountOfType(assignments, ta, course, type) ==
    Cardinality({i \in 1..Len(assignments) :
                    /\ assignments[i].ta = ta
                    /\ assignments[i].course = course
                    /\ assignments[i].slot.slot_type = type})

\* C3: with equal_count active and independence off, on every result of
\* create_schedule with success = true every TA has as many tutorials as labs
\* in every course.
C3_SuccessEqualCount ==
    (/\ ResultReturned
     /\ scheduling_result.success
     /\ scheduling_policies.tutorial_lab_equal_count
     /\ ~scheduling_policies.tutorial_lab_independence) =>
        \A ta \in DOMAIN tas : \A c \in 1..Len(courses) :
            CountOfType(scheduling_result.assignments, ta, c, "tutorial")
                = CountOfType(scheduling_result.assignments, ta, c, "lab")

\* no courses, a course without required slots, or a course without TAs
InputError ==
    \/ courses = <<>>
    \/ \E c \in 1..Len(courses) :
          courses[c].required_slots = <<>> \/ courses[c].assigned_tas = <<>>

\* C7: on an input error create_schedule produces no assignment for any
\* course and success is not true.
C7_InputErrorFailsFast ==
    (ResultReturned /\ InputError) =>
        /\ ~scheduling_result.success
        /\ scheduling_result.assignments = <<>>

\* one course with one TA that is available for every required slot and has
\* the hours for all of them; the required slots are in different cells; no
\* policy is set
SimpleCourse ==
    /\ Len(courses) = 1
    /\ courses[1].assigned_tas = <<1>>
    /\ ~_has_parallel_conflicts(courses[1].required_slots)
    /\ Range(courses[1].required_slots) \subseteq tas[1].available_slots
    /\ tas[1].max_weekly_hours >= Len(courses[1].required_slots) * slot_duration
    /\ scheduling_policies = [tutorial_lab_independence |-> FALSE,
                              tutorial_lab_equal_count |-> FALSE,
                              tutorial_lab_number_matching |-> FALSE,
                              fairness_mode |-> FALSE]

\* success with exactly one assignment per required slot, nothing unassigned
\* and no violation
FullyAssigned ==
    /\ scheduling_result.success
    /\ Len(scheduling_result.assignments) = Len(courses[1].required_slots)
    /\ \A k \in 1..Len(courses[1].required_slots) :
          Cardinality({i \in 1..Len(scheduling_result.assignments) :
                          scheduling_result.assignments[i].slot
                              = courses[1].required_slots[k]}) = 1
    /\ scheduling_result.unassigned_slots = <<>>
    /\ scheduling_result.policy_violations = <<>>

SecondCallReturned ==
    /\ ResultReturned
    /\ previous_result # <<>>
    /\ scheduling_result.optimize = previous_result.optimize

\* C17: a second call of create_schedule on the same course and TA objects,
\* with the same policies and arguments, returns the assignment list, the
\* success flag and the unassigned list of the first call, whatever the first
\* call left in the TAs' working sets.
C17_SecondCallSameResult ==
    SecondCallReturned =>
        /\ scheduling_result.assignments = previous_result.assignments
        /\ scheduling_result.success = previous_result.success
        /\ scheduling_result.unassigned_slots = previous_result.unassigned_slots

\* the second call has returned after a first call in which the balancer
\* transferred an assignment
C17_SecondCallAfterTransfer ==
    /\ SecondCallReturned
    /\ previous_result.success
    /\ previous_result.optimize = TRUE
    /\ previous_result.assignments # locals.all_assignments

\* the number of TAs with capacity that are available for the slot when the
\* course is scheduled
AvailableCount(course, slot) ==
    Cardinality({i \in 1..Len(AvailableTAs(course, current_assignments)) :
                    is_available_for_slot(current_assignments,
                                          AvailableTAs(course, current_assignments)[i], slot)})

\* the place of a slot in the required slots of its course
PlaceOf(course, slot) ==
    CHOOSE i \in 1..Len(course.required_slots) : course.required_slots[i] = slot

\* a turn of the loop over the courses in fairness mode, and the assignments
\* it adds, in the order the slots were processed
FairnessTurn ==
    /\ step = "courses"
    /\ locals.next <= Len(locals.sorted_courses)
    /\ scheduling_policies.fairness_mode
    /\ locals'.next = locals.next + 1

AddedAssignments ==
    SubSeq(locals'.all_assignments, Len(locals.all_assignments) + 1,
           Len(locals'.all_assignments))

\* slots that the same number of TAs can take are processed in input order
C22_TiesInInputOrder ==
    [][FairnessTurn =>
        \E course \in {courses[locals.sorted_courses[locals.next]]} :
            \A i, j \in 1..Len(AddedAssignments) :
                (/\ i < j
                 /\ AvailableCount(course, AddedAssignments[i].slot)
                        = AvailableCount(course, AddedAssignments[j].slot))
                    => PlaceOf(course, AddedAssignments[i].slot)
                           < PlaceOf(course, AddedAssignments[j].slot)]_vars

\* C22: in fairness mode the course scheduler processes the required slots
\* of a course scarcest first: in ascending order of the number of TAs that
\* are available for the slot, ties in input order.
C22_ScarcestFirst ==
    [][FairnessTurn =>
        \E course \in {courses[locals.sorted_courses[locals.next]]} :
            \A i, j \in 1..Len(AddedAssignments) :
                i < j =>
                    \/ AvailableCount(course, AddedAssignments[i].slot)
                           < AvailableCount(course, AddedAssignments[j].slot)
                    \/ /\ AvailableCount(course, AddedAssignments[i].slot)
                              = AvailableCount(course, AddedAssignments[j].slot)
                       /\ PlaceOf(course, AddedAssignments[i].slot)
                              < PlaceOf(course, AddedAssignments[j].slot)]_vars

\* the required (course, slot) pair is covered by an assignment of the list
Covered(assignments, course_id, slot) ==
    \E i \in 1..Len(assignments) :
        assignments[i].course = course_id /\ assignments[i].slot = slot

\* every required pair is covered or listed in unassigned_slots
CoverageAccounted(r) ==
    \A c \in 1..Len(courses) : \A i \in 1..Len(courses[c].required_slots) :
        \/ Covered(r.assignments, courses[c].id, courses[c].required_slots[i])
        \/ InSeq(<<courses[c].id, courses[c].required_slots[i]>>, r.unassigned_slots)

\* the accounting holds when the merge detected no conflict
C25_AccountedWithoutConflicts ==
    (Merged /\ scheduling_result.conflicts = <<>>) => CoverageAccounted(scheduling_result)

\* C25: in every result schedule_all_courses returns, each required
\* (course, slot) pair is covered by an assignment of the final schedule or
\* listed in unassigned_slots, also when the conflict resolution of the merge
\* dropped assignments.
C25_CoverageAccounting ==
    Merged => CoverageAccounted(scheduling_result)

\* the assignments made so far: the list of the loop over the courses, then
\* the schedule of the result
AssignmentsSoFar ==
    IF step = "courses" THEN locals.all_assignments
    ELSE IF step \in {"merged", "done"} THEN scheduling_result.assignments
    ELSE <<>>

\* C26: in greedy mode, after every step of schedule_all_courses no TA holds
\* two assignments at the same (day, slot_number), within or across courses,
\* and the hours of every TA are at most max_weekly_hours; the merge detects
\* no conflict, so that the conflict resolution is not invoked.
C26_GreedyNeverConflicts ==
    ~scheduling_policies.fairness_mode =>
        /\ NoDoubleBooking(AssignmentsSoFar)
        /\ \A ta \in DOMAIN tas :
              /\ AssignedHours(AssignmentsSoFar, ta) <= tas[ta].max_weekly_hours
              /\ step \in {"courses", "merged", "done"}
                    => get_remaining_capacity(current_assignments, ta) >= 0
        /\ step \in {"merged", "done"} => scheduling_result.conflicts = <<>>

\* a greedy run gave the slot two courses share to one TA each
C26_SharedSlotTwoTAs ==
    /\ Merged
    /\ ~scheduling_policies.fairness_mode
    /\ \E i, j \in 1..Len(scheduling_result.assignments) :
          /\ scheduling_result.assignments[i].course # scheduling_result.assignments[j].course
          /\ scheduling_result.assignments[i].slot = scheduling_result.assignments[j].slot
          /\ scheduling_result.assignments[i].ta # scheduling_result.assignments[j].ta

\* the course the loop of schedule_all_courses scheduled last
LastScheduled == courses[locals.sorted_courses[locals.next - 1]]

\* schedule_course has just returned for a course, in greedy mode and with
\* every policy flag false
GreedyCourseReturned ==
    /\ step = "courses"
    /\ locals.next > 1
    /\ ~scheduling_policies.fairness_mode
    /\ ~scheduling_policies.tutorial_lab_independence
    /\ ~scheduling_policies.tutorial_lab_equal_count
    /\ ~scheduling_policies.tutorial_lab_number_matching

\* the TA of the course got no slot of it, although the TA is available for
\* the slot, holds nothing at its (day, slot_number) and has the hours of a
\* slot left.  A TA that got no slot has, after the loop, the working set it
\* had at its turn.
CouldHaveTaken(course, ta, slot) ==
    /\ InSeq(ta, course.assigned_tas)
    /\ current_assignments[ta][course.id] = <<>>
    /\ slot \in tas[ta].available_slots
    /\ ~has_conflict(current_assignments, ta, slot)
    /\ get_remaining_capacity(current_assignments, ta) >= slot_duration

\* C29: in greedy mode with all policy flags false, schedule_course leaves a
\* required slot unassigned only if no TA of the course could take it: after
\* it returns there is no unassigned slot s and TA t of the course without a
\* slot of this course such that t is available for s, holds nothing at the
\* (day, slot_number) of s and had the capacity for a slot at its turn.
C29_UnassignedOnlyIfNoTaker ==
    GreedyCourseReturned =>
        \A i \in 1..Len(LastScheduled.required_slots) : \A ta \in DOMAIN tas :
            InSeq(<<LastScheduled.id, LastScheduled.required_slots[i]>>,
                  locals.unassigned_slots)
                => ~CouldHaveTaken(LastScheduled, ta, LastScheduled.required_slots[i])

(***************************************************************************)
(* Properties of the policy validator.                                     *)
(***************************************************************************)
CombinationsReturned ==
    step = "returned" /\ locals.call = "get_valid_slot_combinations"

ValidationReturned ==
    step = "returned" /\ locals.call = "validate_assignment"

\* the course slots the TA is available for
AvailableCourseSlots ==
    {x \in Range(courses[1].required_slots) :
        is_available_for_slot(current_assignments, 1, x)}

\* the sets of 1..max_slots available slots with no two in one cell
ConflictFreeSlotSets(max_slots) ==
    {S \in SUBSET AvailableCourseSlots :
        /\ S # {}
        /\ Cardinality(S) <= max_slots
        /\ \A x, y \in S : (x.day = y.day /\ x.slot_number = y.slot_number) => x = y}

\* the slot sets a returned list of combinations holds
SlotSetsOf(combos) == {Range(combos[i]) : i \in 1..Len(combos)}

\* C12: for every policy combination get_valid_slot_combinations returns
\* exactly the conflict-free sets of 1..max_slots available course slots that
\* validate_assignment accepts: every returned set is one (with both
\* equal_count and number_matching it passes both checks) and none is missing.
C12_ExactlyTheLegalCombinations ==
    CombinationsReturned =>
        SlotSetsOf(locals.returned) =
            {S \in ConflictFreeSlotSets(locals.max_slots) :
                validate_assignment(SlotsIn(courses[1].required_slots, S)) = <<>>}

\* C13: with tutorial_lab_independence set, whatever the other two flags,
\* validate_assignment reports no violation for any proposed slot list, and
\* get_valid_slot_combinations returns every non-empty set of at most
\* max_slots available course slots with no two in one cell, and nothing else.
C13_IndependenceDominates ==
    scheduling_policies.tutorial_lab_independence =>
        /\ ValidationReturned => locals.returned = <<>>
        /\ CombinationsReturned =>
              SlotSetsOf(locals.returned) = ConflictFreeSlotSets(locals.max_slots)

\* validate_assignment has accepted a lone tutorial although equal_count and
\* number_matching are set next to tutorial_lab_independence
C13_LoneTutorialAccepted ==
    /\ ValidationReturned
    /\ scheduling_policies.tutorial_lab_independence
    /\ scheduling_policies.tutorial_lab_equal_count
    /\ scheduling_policies.tutorial_lab_number_matching
    /\ locals.proposed_slots = <<TimeSlot("sunday", 1, "tutorial")>>
    /\ locals.returned = <<>>

(***************************************************************************)
(* Properties of the scenarios.                                            *)
(***************************************************************************)
\* the result holds an assignment of this slot of the course to the TA
AssignedTo(ta, course, slot) ==
    \E i \in 1..Len(scheduling_result.assignments) :
        scheduling_result.assignments[i] = ScheduleAssignment(ta, slot, course)

\* only tutorial_lab_number_matching is set
OnlyNumberMatching ==
    scheduling_policies = [tutorial_lab_independence |-> FALSE,
                           tutorial_lab_equal_count |-> FALSE,
                           tutorial_lab_number_matching |-> TRUE,
                           fairness_mode |-> FALSE]

\* C14: in the number-matching scenario (slots Sunday-1 tutorial and lab,
\* Monday-2 tutorial and lab, one TA of 10 hours, only number matching set)
\* a TA available for all four slots is assigned both pairs; a TA available
\* for all but Monday-2-lab is assigned the Sunday-1 pair and Monday-2-tutorial
\* is left unassigned.
C14_NumberMatchingScenario ==
    (/\ ResultReturned
     /\ Len(courses) = 1
     /\ courses[1].required_slots = NumberMatchingSlots
     /\ OnlyNumberMatching) =>
        /\ tas[1].available_slots = Range(NumberMatchingSlots) =>
              \A k \in 1..4 : AssignedTo(1, this_course, NumberMatchingSlots[k])
        /\ tas[1].available_slots = Range(NumberMatchingSlots) \ {NumberMatchingSlots[4]} =>
              /\ AssignedTo(1, this_course, NumberMatchingSlots[1])
              /\ AssignedTo(1, this_course, NumberMatchingSlots[2])
              /\ ~AssignedTo(1, this_course, NumberMatchingSlots[3])
              /\ <<this_course, NumberMatchingSlots[3]>> \in Range(scheduling_result.unassigned_slots)

\* two courses require Sunday-1-tutorial only and share two TAs of 4 hours
SharedSlotScenario ==
    /\ Len(courses) = 2
    /\ \A c \in 1..2 : courses[c].required_slots = <<TimeSlot("sunday", 1, "tutorial")>>
    /\ \A ta \in 1..2 : tas[ta].max_weekly_hours = 4

\* C15: in the double-booking scenario the returned schedule has exactly one
\* assignment per TA at Sunday-1, success is false with one slot left
\* unassigned, and the statistics report at least one detected conflict.
C15_DoubleBookingScenario ==
    (ResultReturned /\ SharedSlotScenario) =>
        /\ NoDoubleBooking(scheduling_result.assignments)
        /\ ~scheduling_result.success
        /\ Len(scheduling_result.unassigned_slots) = 1
        /\ LET statistics == get_schedule_statistics(scheduling_result)
           IN /\ "conflicts_detected" \in DOMAIN statistics
              /\ statistics.conflicts_detected >= 1

(***************************************************************************)
(* Properties of the workload balancer called alone.                       *)
(***************************************************************************)
Balanced == step = "balanced"

\* the hours of the working sets of every TA that was within
\* max_weekly_hours before the call are within it after the call
NoNewExcess ==
    \A ta \in DOMAIN tas :
        get_remaining_capacity(locals.ca, ta) >= 0
            => get_remaining_capacity(current_assignments, ta) >= 0

\* a (TA, course) slot-set the validator accepted before the call is accepted
\* after it
PolicyKept(ta) ==
    \A c \in DOMAIN current_assignments[ta] :
        validate_assignment(locals.ca[ta][c]) = <<>>
            => validate_assignment(current_assignments[ta][c]) = <<>>

\* the TAs that lost and that got an assignment in the call
Givers ==
    {ta \in DOMAIN tas :
        get_total_assigned_hours(current_assignments, ta)
            < get_total_assigned_hours(locals.ca, ta)}

Receivers ==
    {ta \in DOMAIN tas :
        get_total_assigned_hours(current_assignments, ta)
            > get_total_assigned_hours(locals.ca, ta)}

C18_NoDoubleBookingAfterBalance ==
    Balanced => NoDoubleBooking(scheduling_result.assignments)

C18_NoNewExcessAfterBalance == Balanced => NoNewExcess

C18_ReceiverPolicyKept == Balanced => \A ta \in Receivers : PolicyKept(ta)

\* C18: after balance_workloads on a schedule without double booking whose
\* working sets match the assignment list, no TA is double-booked at a
\* (day, slot_number), no TA exceeds max_weekly_hours, and every (TA, course)
\* slot-set that satisfied the active policy before satisfies it afterwards,
\* for the receiving and for the giving TAs.
C18_BalancerCreatesNoConflict ==
    Balanced =>
        /\ NoDoubleBooking(scheduling_result.assignments)
        /\ NoNewExcess
        /\ \A ta \in DOMAIN tas : PolicyKept(ta)

\* imbalance_score <= 2.0, computed as ImbalanceBelowThreshold computes
\* imbalance_score < 2.0
ImbalanceAtMostThreshold(stats) ==
    LET n == Len(stats.order)
        st(i) == stats.stat[stats.order[i]]
        Den(i) == IF st(i).max_hours > 0 THEN st(i).max_hours ELSE 1
        D == SeqLCM([i \in 1..n |-> Den(i)])
        U(i) == IF st(i).max_hours > 0 THEN st(i).current_hours * (D \div Den(i)) ELSE 0
        S == SeqSum([i \in 1..n |-> U(i)])
        Spread == SeqSum([i \in 1..n |-> (n * U(i) - S) * (n * U(i) - S)])
    IN \/ n <= 1
       \/ S = 0
       \/ 25 * Spread <= (n - 1) * S * S

\* a schedule whose imbalance score is below 2.0 comes back as it was
C19_BelowThresholdUnchanged ==
    (/\ Balanced
     /\ ImbalanceBelowThreshold(_calculate_workload_stats(locals.assignments)))
        => scheduling_result.assignments = locals.assignments

\* C19: balance_workloads on a schedule whose imbalance score is at most 2.0,
\* exactly 2.0 included, returns the same assignment list: no transfer is
\* applied.
C19_BalancedScheduleUnchanged ==
    (/\ Balanced
     /\ ImbalanceAtMostThreshold(_calculate_workload_stats(locals.assignments)))
        => scheduling_result.assignments = locals.assignments

(***************************************************************************)
(* Properties of the conflict resolver.                                    *)
(***************************************************************************)
ResolvedAutomatically ==
    step = "resolved" /\ locals.call = "resolve_conflicts_automatically"

\* the assignments that are left when the double bookings of the conflicts
\* have been resolved
AfterDoubleBookings ==
    LET IsDoubleBooking(c) == c.conflict_type = "ta_double_booking"
        double_bookings == SelectSeq(locals.conflicts, IsDoubleBooking)
        RECURSIVE Go(_)
        Go(k) == IF k = 0 THEN unique_assignments(locals.conflicts)
                 ELSE _resolve_double_booking(double_bookings[k], Go(k - 1),
                                              current_assignments)
    IN Go(Len(double_bookings))

\* removal priority a is at most removal priority b
PriorityAtMost(a, b) ==
    _assignment_removal_priority(a)[1] * _assignment_removal_priority(b)[2]
        <= _assignment_removal_priority(b)[1] * _assignment_removal_priority(a)[2]

\* what the resolver returns keeps, of the assignments a TA has left after
\* the double bookings, the ones of lowest removal priority, as many as fit
\* in max_weekly_hours
KeepsPrefix(ta) ==
    LET Mine(a) == a.ta = ta
        left == Range(SelectSeq(AfterDoubleBookings, Mine))
        kept == Range(SelectSeq(locals.returned, Mine))
    IN /\ kept \subseteq left
       /\ \A k \in kept : \A d \in left \ kept : PriorityAtMost(k, d)
       /\ \/ kept = left
          \/ (Cardinality(kept) + 1) * slot_duration > tas[ta].max_weekly_hours

\* C23: resolve_conflicts_automatically resolves the double bookings before
\* the over-capacity conflicts and keeps, for each over-capacity TA, a prefix
\* of the TA's remaining assignments in ascending removal priority whose
\* hours are at most max_weekly_hours; in what it returns no TA is
\* double-booked and no TA exceeds max_weekly_hours.
C23_ResolverOutputWithoutConflict ==
    ResolvedAutomatically =>
        /\ NoDoubleBooking(locals.returned)
        /\ \A ta \in DOMAIN tas :
              AssignedHours(locals.returned, ta) <= tas[ta].max_weekly_hours
        /\ \A k \in 1..Len(locals.conflicts) :
              locals.conflicts[k].conflict_type = "overcapacity"
                  => KeepsPrefix(locals.conflicts[k].assignments[1].ta)

\* a double booking and an over-capacity conflict were resolved, and an
\* assignment that survived the double bookings was dropped for the hours
C23_BothKindsResolved ==
    /\ ResolvedAutomatically
    /\ \E k \in 1..Len(locals.conflicts) :
          locals.conflicts[k].conflict_type = "ta_double_booking"
    /\ \E k \in 1..Len(locals.conflicts) :
          locals.conflicts[k].conflict_type = "overcapacity"
    /\ Len(locals.returned) < Len(AfterDoubleBookings)
    /\ locals.returned # <<>>

AutoResolved ==
    step = "resolved" /\ locals.call = "resolve_conflicts" /\ locals.auto_resolve

\* the assignment is part of a double booking or of an over-capacity conflict
\* of the schedule handed to resolve_conflicts
InConflict(a) ==
    \E k \in 1..Len(detect_all_conflicts(locals.result.assignments)) :
        InSeq(a, detect_all_conflicts(locals.result.assignments)[k].assignments)

\* a result with success = true comes back as it is
C24_SuccessfulResultUnchanged ==
    (AutoResolved /\ locals.result.success) => scheduling_result = locals.result

\* C24: resolve_conflicts with auto_resolve = true removes only losing
\* assignments of detected conflicts: every assignment of the schedule it is
\* given that is part of no double booking and of no over-capacity conflict
\* is in the schedule it returns.
C24_OnlyConflictingAssignmentsRemoved ==
    AutoResolved =>
        \A i \in 1..Len(locals.result.assignments) :
            ~InConflict(locals.result.assignments[i])
                => InSeq(locals.result.assignments[i], scheduling_result.assignments)

\* how often the (course, slot) pair stands in a list of assignments
PairCount(assignments, course_id, slot) ==
    Cardinality({i \in 1..Len(assignments) :
                    assignments[i].course = course_id /\ assignments[i].slot = slot})

\* C27: balance_workloads only changes which TA serves a slot: the list it
\* returns has the length of the list it was given and holds every
\* (course, slot) pair as often, whether or not transfers happen.
C27_BalancerKeepsPairs ==
    Balanced =>
        /\ Len(scheduling_result.assignments) = Len(locals.assignments)
        /\ \A i \in 1..Len(locals.assignments) :
              PairCount(scheduling_result.assignments,
                        locals.assignments[i].course, locals.assignments[i].slot)
                = PairCount(locals.assignments,
                            locals.assignments[i].course, locals.assignments[i].slot)

\* the balancer moved an assignment to another TA
C27_TransferHappened ==
    /\ Balanced
    /\ scheduling_result.assignments # locals.assignments
    /\ \E i \in 1..Len(locals.assignments) :
          scheduling_result.assignments[i].ta # locals.assignments[i].ta

\* optimize_global_schedule has returned
Optimized == step = "optimized"

\* C30: optimize_global_schedule never reduces coverage: the schedule it
\* returns covers the (course, slot) pairs the input result covers, so that a
\* returned success = true still means that every required slot is assigned.
C30_OptimizeKeepsCoverage ==
    Optimized =>
        /\ \A c \in 1..Len(courses) : \A i \in 1..Len(courses[c].required_slots) :
              Covered(locals.result.assignments, courses[c].id,
                      courses[c].required_slots[i])
                 <=> Covered(scheduling_result.assignments, courses[c].id,
                             courses[c].required_slots[i])
        /\ scheduling_result.success =>
              \A c \in 1..Len(courses) : \A i \in 1..Len(courses[c].required_slots) :
                  Covered(scheduling_result.assignments, courses[c].id,
                          courses[c].required_slots[i])

====
